---- MODULE Spec2Model ----
(***************************************************************************)
(* Model of the SMS pipeline of Rishikesh63/SMS-SERVICE:                   *)
(*   - the partition router (message_broker.rs, DefaultHasher = SipHash-1-3*)
(*     with keys (0, 0) over the bytes of conversation_id followed by 0xFF),*)
(*   - the ingestion batcher and the batch publisher (sms_server.rs,       *)
(*     message_broker.rs),                                                 *)
(*   - the Store Consumer (TursoConsumer) and the Reply Consumer           *)
(*     (AIConsumer) with the conversation store (consumers.rs, store.rs).  *)
(* Strings are sequences of byte values.                                   *)
(***************************************************************************)
EXTENDS Integers, Sequences, FiniteSets, TLC

(***************************************************************************)
(* u64 words of std's SipHasher13: sequences of 8 bytes, least significant *)
(* byte first.                                                             *)
(***************************************************************************)
Pow2(n) == IF n = 0 THEN 1
           ELSE IF n = 1 THEN 2
           ELSE IF n = 2 THEN 4
           ELSE IF n = 3 THEN 8
           ELSE IF n = 4 THEN 16
           ELSE IF n = 5 THEN 32
           ELSE IF n = 6 THEN 64
           ELSE IF n = 7 THEN 128
           ELSE 256

RECURSIVE XorBits(_, _, _)
XorBits(a, b, n) ==
    IF n = 0 THEN 0
    ELSE ((a + b) % 2) + 2 * XorBits(a \div 2, b \div 2, n - 1)

Xor8(a, b) == XorBits(a, b, 8)

\* the u64 whose little-endian bytes are bs (at most 8 bytes, zero padded)
WordOfBytes(bs) ==
    LET B(i) == IF i <= Len(bs) THEN bs[i] ELSE 0
    IN  <<B(1), B(2), B(3), B(4), B(5), B(6), B(7), B(8)>>

Xor64(a, b) ==
    <<Xor8(a[1], b[1]), Xor8(a[2], b[2]), Xor8(a[3], b[3]), Xor8(a[4], b[4]),
      Xor8(a[5], b[5]), Xor8(a[6], b[6]), Xor8(a[7], b[7]), Xor8(a[8], b[8])>>

\* rotate_left on u64
Rotl64(a, r) ==
    LET q == r \div 8
        s == r % 8
        B(i) == ((a[((i + 8 - q) % 8) + 1] * Pow2(s)) % 256)
                + (a[((i + 7 - q) % 8) + 1] \div Pow2(8 - s))
    IN  <<B(0), B(1), B(2), B(3), B(4), B(5), B(6), B(7)>>

\* wrapping_add on u64
Add64(a, b) ==
    LET s1 == a[1] + b[1]
        s2 == a[2] + b[2] + (s1 \div 256)
        s3 == a[3] + b[3] + (s2 \div 256)
        s4 == a[4] + b[4] + (s3 \div 256)
        s5 == a[5] + b[5] + (s4 \div 256)
        s6 == a[6] + b[6] + (s5 \div 256)
        s7 == a[7] + b[7] + (s6 \div 256)
        s8 == a[8] + b[8] + (s7 \div 256)
    IN  <<s1 % 256, s2 % 256, s3 % 256, s4 % 256,
          s5 % 256, s6 % 256, s7 % 256, s8 % 256>>

\* the element of a singleton set: { e(x) : x \in {v} } evaluates v once
The(S) == CHOOSE r \in S : TRUE

\* one SipRound on the state <<v0, v1, v2, v3>>
SipRound(v) ==
    The({ The({ The({ The({ The({ The({ The({ The({ The({
        <<b0, b1, Rotl64(b2, 32), b3>>
        : b1 \in {Xor64(Rotl64(a1, 17), b2)} })
        : b2 \in {Add64(a2, a1)} })
        : b3 \in {Xor64(Rotl64(a3, 21), b0)} })
        : b0 \in {Add64(Rotl64(a0, 32), a3)} })
        : a3 \in {Xor64(Rotl64(w[4], 16), a2)} })
        : a2 \in {Add64(w[3], w[4])} })
        : a1 \in {Xor64(Rotl64(w[2], 13), a0)} })
        : a0 \in {Add64(w[1], w[2])} })
        : w \in {v} })

\* c_rounds of SipHash-1-3: one round per 8-byte block
Compress(v, m) ==
    The({ The({ <<Xor64(w[1], b), w[2], w[3], w[4]>>
        : w \in {SipRound(<<u[1], u[2], u[3], Xor64(u[4], b)>>)} })
        : u \in {v}, b \in {m} })

RECURSIVE Absorb(_, _)
Absorb(v, data) ==
    IF Len(data) >= 8
    THEN Absorb(Compress(v, WordOfBytes(SubSeq(data, 1, 8))),
                SubSeq(data, 9, Len(data)))
    ELSE v

\* the bytes left after the last whole 8-byte block
TailBytes(data) == SubSeq(data, Len(data) - (Len(data) % 8) + 1, Len(data))

\* SipHasher13 with keys k = <<k0, k1>> (two u64 words) over the bytes data
SipHash13(k, data) ==
    The({ The({ The({ The({ Xor64(Xor64(f[1], f[2]), Xor64(f[3], f[4]))
        : f \in {SipRound(SipRound(SipRound(
                   <<v[1], v[2], Xor64(v[3], WordOfBytes(<<255>>)), v[4]>>)))} })
        : v \in {Compress(
                   Absorb(<< Xor64(k[1], <<117, 101, 115, 112, 101, 109, 111, 115>>),
                             Xor64(k[2], <<109, 111, 100, 110, 97, 114, 111, 100>>),
                             Xor64(k[1], <<97, 114, 101, 110, 101, 103, 121, 108>>),
                             Xor64(k[2], <<115, 101, 116, 121, 98, 100, 101, 116>>) >>,
                          d),
                   <<t[1], t[2], t[3], t[4], t[5], t[6], t[7], Len(d) % 256>>)} })
        : t \in {WordOfBytes(TailBytes(d))} })
        : d \in {data} })

\* h % n for a u64 h (n < 2^15), most significant byte first
RECURSIVE ModFrom(_, _, _)
ModFrom(h, n, i) ==
    IF i = 8 THEN h[8] % n
    ELSE (ModFrom(h, n, i + 1) * 256 + h[i]) % n

Mod64(h, n) == ModFrom(h, n, 1)

(***************************************************************************)
(* Bounds of the model and constants of the program.                       *)
(***************************************************************************)
\* number of inbound SMS the webhook receives in one behaviour
MaxMsgs == 3

\* number of SMS published in one behaviour of the router specification
MaxRouted == 2

\* number of restarts of the server process in one behaviour
MaxRestarts == 1

\* batch_size handed to MessageBatcher::new (BATCH_SIZE)
BatchSize == 2

\* partitions the topic is created with
TopicPartitions == 4

\* modulus of the hash routing
RouterModulus == 4

Partitions == 1..TopicPartitions

\* the values a u32 partition id takes in the model
PartitionIds == 0..(TopicPartitions + 1)

\* "+1" and "+12": the From numbers of the inbound SMS
Froms == { <<43, 49>>, <<43, 49, 50>> }

\* the two consumers of the topic
Turso == "turso"
AI == "ai"
Consumers == {Turso, AI}

\* consumer_member_id, the id of Consumer::new(Identifier::numeric(..))
ConsumerMemberId == [c \in Consumers |-> 1]

\* consumer_group_id: set by new(), read nowhere
ConsumerGroupId == [c \in Consumers |-> IF c = Turso THEN 100 ELSE 101]

\* the consumer identities the broker keeps offsets for
ConsumerIds == { ConsumerMemberId[c] : c \in Consumers }

\* poll_messages(.., count = 10, auto_commit = true)
PollCount == 10
AutoCommit == TRUE

\* if history.len() > 10
HistoryCap == 10

\* broker redeliveries (at-least-once delivery) explored
MaxRedeliver == 1

\* concurrent webhook requests (axum handler tasks) and the flush task
Handlers == {"h1", "h2"}
Timer == "timer"
Tasks == Handlers \cup {Timer}
NoTask == "none"

(***************************************************************************)
(* handle_incoming_sms: conversation_id = "sms_" ++ From without '+', ' '. *)
(***************************************************************************)
IsKept(ch) == ch # 43 /\ ch # 32

ConversationIdOf(from) == <<115, 109, 115, 95>> \o SelectSeq(from, IsKept)

\* SMSMessage; body n stands for the n-th distinct text received
SMSMessage(from, n) ==
    [from |-> from, body |-> n, conversation_id |-> ConversationIdOf(from)]

ConversationIds == { ConversationIdOf(f) : f \in Froms }

\* From numbers of the router specification: "+1", "+12", "+1 2", "12", "10", "8"
RouterFroms ==
    Froms \cup { <<43, 49, 32, 50>>, <<49, 50>>, <<49, 48>>, <<56>> }

RouterConversationIds == { ConversationIdOf(f) : f \in RouterFroms }

(***************************************************************************)
(* Partition router.                                                       *)
(***************************************************************************)
Zero64 == <<0, 0, 0, 0, 0, 0, 0, 0>>

\* DefaultHasher::new(): SipHasher13 with keys (0, 0)
DefaultHasherKeys == <<Zero64, Zero64>>

\* impl Hash for str: the bytes, then 0xFF; hasher.finish()
HashOfStr(c) == SipHash13(DefaultHasherKeys, c \o <<255>>)

\* the hashes of the conversation ids of the model, computed once
HashTable == [c \in RouterConversationIds |-> HashOfStr(c)]

VARIABLES
    buffer,     \* MessageBatcher.buffer: the Vec behind the mutex
    lock,       \* the task holding the buffer mutex, or NoTask
    pc,         \* where each task of the server is
    cur,        \* the message each handler is adding
    batch,      \* the swapped-out batch each task publishes
    groups,     \* partition_groups entries each publish call has still to send
    nextBody,   \* number of inbound SMS received so far, plus one
    log,        \* the topic: the messages appended to each partition
    accepted,   \* history: the messages pushed on the buffer, in push order
    flushLog,   \* history: the batches swapped out, in swap order
    addPre,     \* history: per message, the add_message calls returned before its call began
    addRet,     \* history: per message, what its add_message call returned
    routed,     \* history: conversation, partition, caller, epoch of every send_messages call
    epoch,      \* number of restarts of the server process so far
    producer    \* the producer process: "running" or "failed"

VARIABLES
    offset,         \* broker: per consumer identity and partition, the stored consumer offset
    polled,         \* per consumer: polled.messages still to be iterated
    cpc,            \* where each consumer is in poll_and_process / process_message
    aiHistory,      \* AIConsumer::process_message: history
    aiResponse,     \* AIConsumer::process_message: ai_response
    conversations,  \* store: the ids of the rows of table conversations
    messages,       \* store: the rows of table messages, in created_at order
    updatedAt,      \* store: column updated_at of each conversation row, 0 without a row
    sent,           \* the SMS accepted by SignalWire, in order
    delivered,      \* history: per consumer, the messages its polls returned
    done,           \* history: per consumer, the messages process_message returned Ok for
    dispatchFailed, \* history: the messages whose send_sms returned an error
    redelivered     \* number of broker redeliveries so far

VARIABLES
    input,          \* codec: the byte-slices handed to from_messages
    overflowChecks, \* codec: the build has overflow checks (debug) or not (release)
    mb,             \* codec: the MessageBatch built, NoBatch before from_messages
    got,            \* codec: the last get call, its index and what it returned
    iters,          \* codec: the MessageBatchIterator values alive
    yielded         \* codec: per iterator, what its next calls returned so far

VARIABLES
    roleRows,       \* roles: column role of the rows of one conversation, in created_at order
    roleRead,       \* roles: the last get_conversation_messages call on them, and its result
    roleTrip        \* roles: the last as_str / from_str round trip

VARIABLES
    env,            \* config: the environment of the consumer process, .env file applied
    config,         \* config: what AppConfig::load returned, NoConfig before the call
    mainPc          \* config: where main of the consumer binary is

VARIABLES
    pubBatch,       \* publisher: the Vec<SMSMessage> one publish_sms_batch call was given
    pubGroups,      \* publisher: the keys of partition_groups the for loop has still to visit
    pubAppends,     \* publisher: the send_messages calls made so far, in call order
    pubRet,         \* publisher: what the call returned, "none" before it returns
    pubPc           \* publisher: where the call is

VARIABLES
    genHistory,     \* generate_response: the history it was given
    genRequest,     \* generate_response: request.messages
    genAttempt,     \* generate_response: attempt of the for loop
    genOutcomes,    \* generate_response: how each request sent so far ended
    genRet,         \* generate_response: what the call returned
    genPc           \* generate_response: where the call is

batcherVars == <<buffer, lock, pc, cur, batch, groups, nextBody>>
brokerVars == <<log>>
historyVars == <<accepted, flushLog, addPre, addRet, routed>>
processVars == <<epoch, producer>>
consumerVars == <<offset, polled, cpc, aiHistory, aiResponse, redelivered>>
storeVars == <<conversations, messages, updatedAt>>
outcomeVars == <<sent, delivered, done, dispatchFailed>>
codecVars == <<input, overflowChecks, mb, got, iters, yielded>>
roleVars == <<roleRows, roleRead, roleTrip>>
\* the variables of the functions modelled on their own, the codec apart
configVars == <<env, config, mainPc>>
publisherVars == <<pubBatch, pubGroups, pubAppends, pubRet, pubPc>>
generateVars == <<genHistory, genRequest, genAttempt, genOutcomes, genRet, genPc>>

\* LazyMessage: the raw bytes, the handles (a handle names its cache cell),
\* each cell's cached view and mutex, every task's position in deserialize,
\* the from_bytes calls made, the results returned, the last conversation_id()
VARIABLES
    lazyRaw, lazyHandles, lazyCached, lazyGuard, lazyPc, lazyOn, lazyParsed,
    lazyReturned, lazyCid

lazyVars == <<lazyRaw, lazyHandles, lazyCached, lazyGuard, lazyPc, lazyOn,
              lazyParsed, lazyReturned, lazyCid>>
sideVars == <<roleVars, configVars, publisherVars, generateVars, lazyVars>>
vars == <<batcherVars, brokerVars, historyVars, processVars, consumerVars,
          storeVars, outcomeVars, codecVars, sideVars>>

pipelineVars == <<batcherVars, brokerVars, historyVars, processVars, consumerVars,
                  storeVars, outcomeVars>>

\* what the steps of one function modelled on its own leave unchanged
restOfRoles == <<pipelineVars, codecVars, configVars, publisherVars, generateVars, lazyVars>>
restOfConfig == <<pipelineVars, codecVars, roleVars, publisherVars, generateVars, lazyVars>>
restOfPublisher == <<pipelineVars, codecVars, roleVars, configVars, generateVars, lazyVars>>
restOfGenerate == <<pipelineVars, codecVars, roleVars, configVars, publisherVars, lazyVars>>
restOfLazy == <<pipelineVars, codecVars, roleVars, configVars, publisherVars, generateVars>>

\* faulty variant: a hasher seeded per process (RandomState) in place of DefaultHasher::new()
SeededPartitionForConversation(c) ==
    ((Mod64(HashTable[c], RouterModulus) + epoch) % RouterModulus) + 1

\* faulty variant: the + 1 of the 1-indexed partition ids left out
ZeroBasedPartitionForConversation(c) == Mod64(HashTable[c], RouterModulus)

\* ((hash % 4) as u32) + 1
GetPartitionForConversation(c) == Mod64(HashTable[c], RouterModulus) + 1

Bodies == 1..MaxMsgs

Returned == { n \in Bodies : addRet[n] # "none" }

\* faulty variant: > in place of >=
ShouldFlushStrict(buf) == Len(buf) > BatchSize

\* faulty variant: the buffer cloned, not taken
MemClone(buf) == [taken |-> buf, left |-> buf]

\* should_flush = buffer.len() >= self.batch_size
ShouldFlush(buf) == Len(buf) >= BatchSize

\* std::mem::take(&mut *buffer): the batch taken and what the buffer holds after
MemTake(buf) == [taken |-> buf, left |-> <<>>]

\* faulty variant: the guard kept alive while the taken batch is published
GuardHeldWhilePublishing(t, to) == IF to = "publish" THEN t ELSE NoTask

\* the MutexGuard `buffer` is dropped where its block ends or the function
\* returns: the holder of the mutex after task t leaves the block for `to`
GuardAfterBlock(t, to) == NoTask

\* faulty variant: each message put at the front of its group
GroupOfPrepending(b, p) ==
    LET InP(m) == GetPartitionForConversation(m.conversation_id) = p
        g == SelectSeq(b, InP)
    IN  [i \in 1..Len(g) |-> g[Len(g) + 1 - i]]

\* the messages of a batch routed to partition p, in batch order
GroupOf(b, p) ==
    LET InP(m) == GetPartitionForConversation(m.conversation_id) = p
    IN  SelectSeq(b, InP)

PartitionsOf(b) ==
    { GetPartitionForConversation(b[i].conversation_id) : i \in 1..Len(b) }

(***************************************************************************)
(* zero_copy.rs: MessageBatch.  A byte-slice is kept run-length encoded, a *)
(* sequence of runs of one byte value, no run empty and no two adjacent    *)
(* runs of the same byte, so that slices of 2^31 bytes can be written      *)
(* down.  The index buffer is a plain sequence of bytes.                   *)
(***************************************************************************)
\* lengths and offsets are numbers beyond 2^31: a pair of a high part and a
\* low part of 16 bits, standing for hi * 65536 + lo
Limb == 65536
Big(hi, lo) == [hi |-> hi, lo |-> lo]
Small(n) == Big(0, n)
BigAdd(a, b) == Big(a.hi + b.hi + ((a.lo + b.lo) \div Limb), (a.lo + b.lo) % Limb)
BigLe(a, b) == a.hi < b.hi \/ (a.hi = b.hi /\ a.lo <= b.lo)
\* a - b, for b <= a
BigSub(a, b) ==
    IF a.lo >= b.lo THEN Big(a.hi - b.hi, a.lo - b.lo)
    ELSE Big(a.hi - b.hi - 1, a.lo + Limb - b.lo)

Run(b, n) == [byte |-> b, n |-> n]

RECURSIVE BLen(_)
BLen(s) == IF s = <<>> THEN Small(0) ELSE BigAdd(s[1].n, BLen(Tail(s)))

\* put_slice: b appended to a
BConcat(a, b) ==
    IF a = <<>> THEN b
    ELSE IF b = <<>> THEN a
    ELSE IF a[Len(a)].byte = b[1].byte
         THEN SubSeq(a, 1, Len(a) - 1)
                  \o <<Run(b[1].byte, BigAdd(a[Len(a)].n, b[1].n))>>
                  \o Tail(b)
         ELSE a \o b

RECURSIVE BDrop(_, _)
BDrop(s, k) ==
    IF k = Small(0) \/ s = <<>> THEN s
    ELSE IF BigLe(s[1].n, k) THEN BDrop(Tail(s), BigSub(k, s[1].n))
         ELSE <<Run(s[1].byte, BigSub(s[1].n, k))>> \o Tail(s)

RECURSIVE BTake(_, _)
BTake(s, k) ==
    IF k = Small(0) \/ s = <<>> THEN <<>>
    ELSE IF BigLe(s[1].n, k) THEN <<s[1]>> \o BTake(Tail(s), BigSub(k, s[1].n))
         ELSE <<Run(s[1].byte, k)>>

\* what a call returns: Some(bytes), None, or the call panics
Some(bytes) == [kind |-> "some", bytes |-> bytes]
None == [kind |-> "none"]
Panic == [kind |-> "panic"]

\* Bytes::slice(start..end): panics unless start <= end <= len
Slice(s, start, end) ==
    IF BigLe(start, end) /\ BigLe(end, BLen(s))
    THEN Some(BTake(BDrop(s, start), BigSub(end, start)))
    ELSE Panic

\* msg.len() as u32: the low 32 bits
AsU32(n) == Big(n.hi % Limb, n.lo)

\* a sum of two u32 values does not fit in a u32
OverflowsU32(n) == n.hi >= Limb

\* faulty variant: put_u32, most significant byte first
U32Be(x) == << x.hi \div 256, x.hi % 256, x.lo \div 256, x.lo % 256 >>

\* put_u32_le: the four bytes of x, least significant first
U32Le(x) == << x.lo % 256, x.lo \div 256, x.hi % 256, x.hi \div 256 >>

\* get_u32_le on a buffer of at least four bytes: the value read
ReadU32Le(buf) == Big(buf[3] + 256 * buf[4], buf[1] + 256 * buf[2])

\* Buf::advance(n)
Advance(buf, n) == SubSeq(buf, n + 1, Len(buf))

\* the byte-slices of the model: "", "AB", and 2^31 times "A"
HugeLen == Big(32768, 0)
Slices == { <<>>, <<Run(65, Small(1)), Run(66, Small(1))>>, <<Run(65, HugeLen)>> }

\* longest list handed to from_messages
MaxSlices == 3

RECURSIVE ListsUpTo(_)
ListsUpTo(n) ==
    IF n = 0 THEN { <<>> }
    ELSE ListsUpTo(n - 1)
            \cup { Append(l, x) : l \in { m \in ListsUpTo(n - 1) : Len(m) = n - 1 },
                                  x \in Slices }

SliceLists == ListsUpTo(MaxSlices)

NoBatch == [panicked |-> FALSE, built |-> FALSE]

\* faulty variant: the offset counts messages, not bytes
OffsetAfterCounting(off, msg) == BigAdd(off, Small(1))

\* offset += msg.len() as u32, before the u32 wraps or the overflow check fires
OffsetAfter(off, msg) == BigAdd(off, AsU32(BLen(msg)))

\* the loop of from_messages over the first k messages: index buffer,
\* payload buffer, running offset, and whether `offset +=` has overflowed
\* under overflow checks
RECURSIVE Encode(_, _, _)
Encode(msgs, k, checks) ==
    IF k = 0
    THEN [indexes |-> <<>>, messages |-> <<>>, offset |-> Small(0), panicked |-> FALSE]
    ELSE LET e == The({ Encode(msgs, k - 1, checks) })
             sum == OffsetAfter(e.offset, msgs[k])
         IN  IF e.panicked THEN e
             ELSE [indexes |-> e.indexes \o U32Le(e.offset),
                   messages |-> BConcat(e.messages, msgs[k]),
                   offset |-> AsU32(sum),
                   panicked |-> checks /\ OverflowsU32(sum)]

\* MessageBatch::from_messages
FromMessages(msgs, checks) ==
    LET e == The({ Encode(msgs, Len(msgs), checks) })
    IN  IF e.panicked
        THEN [panicked |-> TRUE, built |-> FALSE]
        ELSE [panicked |-> FALSE, built |-> TRUE, indexes |-> e.indexes,
              messages |-> e.messages, count |-> Len(msgs)]

\* start and end of get / next read from an index buffer positioned at the
\* entry of message `current`, then the slice
SliceAt(idx, payload, current, count) ==
    IF Len(idx) < 4 THEN Panic
    ELSE LET start == ReadU32Le(idx)
             rest == Advance(idx, 4)
         IN  IF current + 1 < count
             THEN IF Len(rest) < 4 THEN Panic
                  ELSE Slice(payload, start, ReadU32Le(rest))
             ELSE Slice(payload, start, BLen(payload))

\* faulty variant: index > self.count in place of index >= self.count
GetOffByOne(b, index) ==
    IF index > b.count THEN None
    ELSE IF index * 4 > Len(b.indexes) THEN Panic
         ELSE SliceAt(Advance(b.indexes, index * 4), b.messages, index, b.count)

\* MessageBatch::get
Get(b, index) ==
    IF index >= b.count THEN None
    ELSE IF index * 4 > Len(b.indexes) THEN Panic
         ELSE SliceAt(Advance(b.indexes, index * 4), b.messages, index, b.count)

\* MessageBatch::iter
Iter(b) == [alive |-> TRUE, indexes |-> b.indexes, messages |-> b.messages,
            current |-> 0, count |-> b.count]

NoIter == [alive |-> FALSE]

\* MessageBatchIterator::next: the item returned
NextItem(it) ==
    IF it.current >= it.count THEN None
    ELSE SliceAt(it.indexes, it.messages, it.current, it.count)

\* faulty variant: start read through a clone, self.indexes left where it was
NextIterPeeking(it) ==
    IF it.current >= it.count \/ NextItem(it).kind = "panic" THEN it
    ELSE [it EXCEPT !.current = @ + 1]

\* MessageBatchIterator::next: the iterator afterwards
NextIter(it) ==
    IF it.current >= it.count \/ NextItem(it).kind = "panic" THEN it
    ELSE [it EXCEPT !.indexes = Advance(@, 4), !.current = @ + 1]

Iterators == {1, 2}

NoGet == [called |-> FALSE]

\* the codec before any call, with no input
InitCodecIdle ==
    /\ input = <<>>
    /\ overflowChecks = FALSE
    /\ mb = NoBatch
    /\ got = NoGet
    /\ iters = [k \in Iterators |-> NoIter]
    /\ yielded = [k \in Iterators |-> <<>>]

(***************************************************************************)
(* MessageBatcher::new: empty buffer, the flush task asleep.               *)
(***************************************************************************)
InitBatcher ==
    /\ buffer = <<>>
    /\ lock = NoTask
    /\ pc = [t \in Tasks |-> IF t = Timer THEN "sleep" ELSE "idle"]
    /\ cur = [h \in Handlers |-> <<>>]
    /\ batch = [t \in Tasks |-> <<>>]
    /\ groups = [t \in Tasks |-> {}]
    /\ nextBody = 1
    /\ accepted = <<>>
    /\ flushLog = <<>>
    /\ addPre = [n \in Bodies |-> {}]
    /\ addRet = [n \in Bodies |-> "none"]

InitBroker ==
    /\ log = [p \in Partitions |-> <<>>]
    /\ routed = {}

InitProcess ==
    /\ epoch = 0
    /\ producer = "running"

\* the send_messages calls of one partition group of batch b, as history
Sends(b, p, via) ==
    { [conversation_id |-> b[i].conversation_id, partition |-> p,
       via |-> via, epoch |-> epoch] :
        i \in { k \in 1..Len(b) :
                  GetPartitionForConversation(b[k].conversation_id) = p } }

(***************************************************************************)
(* MessageRole and the role column of table messages.  Strings are the     *)
(* sequences of their ASCII codes.                                         *)
(***************************************************************************)
Roles == {"User", "Assistant"}

StrUser == <<117, 115, 101, 114>>
StrAssistant == <<97, 115, 115, 105, 115, 116, 97, 110, 116>>

\* MessageRole::as_str
AsStr(r) == IF r = "User" THEN StrUser ELSE StrAssistant

\* str::to_lowercase, on ASCII
ToLowercase(s) == [i \in 1..Len(s) |-> IF s[i] \in 65..90 THEN s[i] + 32 ELSE s[i]]

\* an Option<MessageRole>
SomeRole(r) == [kind |-> "some", role |-> r]

\* MessageRole::from_str: match s.to_lowercase().as_str()
FromStr(s) ==
    LET l == ToLowercase(s)
    IN  IF l = StrUser THEN SomeRole("User")
        ELSE IF l = StrAssistant THEN SomeRole("Assistant")
        ELSE None

\* role strings a row of the table can hold: "user", "assistant", "User", "system"
RoleStrings == { StrUser, StrAssistant, <<85, 115, 101, 114>>,
                 <<115, 121, 115, 116, 101, 109>> }

MaxRows == 2

\* get_conversation_messages on rows with these role strings: from_str(..).context(..)?
\* on each row in turn, Ok(messages) after the last
GetRowsRoles(rows) ==
    IF \E i \in 1..Len(rows) : FromStr(rows[i]) = None
    THEN [kind |-> "err"]
    ELSE [kind |-> "ok", roles |-> [i \in 1..Len(rows) |-> FromStr(rows[i]).role]]

NoRead == [called |-> FALSE]
NoTrip == [called |-> FALSE]

InitRolesIdle ==
    /\ roleRows = <<>>
    /\ roleRead = NoRead
    /\ roleTrip = NoTrip

(***************************************************************************)
(* AppConfig::load and main of the consumer binary.                        *)
(***************************************************************************)
Settings == { "PORT", "TURSO_DATABASE_URL", "TURSO_AUTH_TOKEN", "GROQ_MODEL",
              "GROQ_API_KEY", "SIGNALWIRE_PROJECT_ID", "SIGNALWIRE_AUTH_TOKEN",
              "SIGNALWIRE_SPACE_URL", "SIGNALWIRE_FROM_NUMBER" }

\* env::var(name) is Err(NotPresent)
Absent == "absent"

\* the value a variable of the environment has when it is set
Given == "given"

\* the settings read with unwrap_or_else, and their defaults
Defaults == [PORT |-> "3001", GROQ_MODEL |-> "llama-3.3-70b-versatile"]

\* faulty variant: GROQ_API_KEY read without `.context(..)?`
FailFastSettingsButApiKey ==
    << "TURSO_DATABASE_URL", "TURSO_AUTH_TOKEN", "SIGNALWIRE_PROJECT_ID",
       "SIGNALWIRE_AUTH_TOKEN", "SIGNALWIRE_SPACE_URL", "SIGNALWIRE_FROM_NUMBER" >>

\* the settings read with `.context(..)?`, in the order the fields are evaluated
FailFastSettings ==
    << "TURSO_DATABASE_URL", "TURSO_AUTH_TOKEN", "GROQ_API_KEY", "SIGNALWIRE_PROJECT_ID",
       "SIGNALWIRE_AUTH_TOKEN", "SIGNALWIRE_SPACE_URL", "SIGNALWIRE_FROM_NUMBER" >>

\* AppConfig::load in environment e: the first `?` that finds its variable absent
\* returns the error; otherwise every field is built
Load(e) ==
    LET missing == { i \in 1..Len(FailFastSettings) : e[FailFastSettings[i]] = Absent }
    IN  IF missing # {}
        THEN [kind |-> "err",
              context |-> FailFastSettings[CHOOSE i \in missing :
                                              \A j \in missing : i <= j]]
        ELSE [kind |-> "ok",
              value |-> [n \in Settings |->
                           IF e[n] # Absent THEN e[n]
                           ELSE IF n \in DOMAIN Defaults THEN Defaults[n]
                           ELSE Absent]]

NoConfig == [kind |-> "none"]

InitConfigIdle ==
    /\ env = [n \in Settings |-> Absent]
    /\ config = NoConfig
    /\ mainPc = "load"

(***************************************************************************)
(* One call of publish_sms_batch on its own.                               *)
(***************************************************************************)
\* longest batch handed to publish_sms_batch
MaxBatch == 3

\* senders of the batches: "+1", "+12" and "10", routed to three partitions
PublisherFroms == Froms \cup { <<49, 48>> }

\* the batches: message k of a batch has body k
RECURSIVE BatchesUpTo(_)
BatchesUpTo(n) ==
    IF n = 0 THEN { <<>> }
    ELSE BatchesUpTo(n - 1)
            \cup { Append(b, SMSMessage(f, n)) :
                     b \in { c \in BatchesUpTo(n - 1) : Len(c) = n - 1 },
                     f \in PublisherFroms }

\* faulty variant: a send_messages error is logged and the loop goes on
OnSendErrorLogged(g, p) ==
    [groups |-> g \ {p}, ret |-> IF g = {p} THEN "ok" ELSE "none"]

\* send_messages(..).await.context(..)?: the error leaves publish_sms_batch, no
\* group is visited after it
OnSendError(g, p) == [groups |-> {}, ret |-> "err"]

InitPublisherIdle ==
    /\ pubBatch = <<>>
    /\ pubGroups = {}
    /\ pubAppends = <<>>
    /\ pubRet = "none"
    /\ pubPc = "idle"

(***************************************************************************)
(* AIService::generate_response on its own.                                *)
(***************************************************************************)
\* longest history handed to generate_response
MaxHistory == 21

\* .take(20)
RequestCap == 20

\* for attempt in 1..=2
LoopAttempts == 2

\* turn i of a conversation, oldest first: users and the assistant alternate
Turn(i) == [role |-> IF i % 2 = 1 THEN "user" ELSE "assistant", content |-> i]

\* a history of h turns
Turns(h) == [i \in 1..h |-> Turn(i)]

\* the message generate_response is asked to answer
UserMessage == [role |-> "user", content |-> "user_message"]

\* Iterator::take(n): the first n items, or all of them
Take(s, n) == SubSeq(s, 1, IF Len(s) < n THEN Len(s) ELSE n)

\* messages of the GroqRequest: history.iter().cloned().take(20), then the user
\* message pushed
RequestMessages(history) == Append(Take(history, RequestCap), UserMessage)

\* how a request can end: 2xx with a body that parses and has a choice, 2xx with
\* a body that does not, another status, or send() returning Err
Outcomes == {"reply", "bad_body", "status", "transport"}

\* faulty variant: the error returned at attempt 3, which the loop never makes
IsLastAttemptOffByOne(attempt) == attempt = 3

\* if attempt == 2
IsLastAttempt(attempt) == attempt = 2

NoReturn == [kind |-> "none"]

InitGenerateIdle ==
    /\ genHistory = <<>>
    /\ genRequest = <<>>
    /\ genAttempt = 0
    /\ genOutcomes = <<>>
    /\ genRet = NoReturn
    /\ genPc = "idle"

\* the functions modelled on their own before any call
(***************************************************************************)
(* SMSMessageView and LazyMessage (zero_copy.rs).  A payload is garbled    *)
(* bytes or the JSON value the bytes spell.                                *)
(***************************************************************************)
JNull == [t |-> "null"]
\* a number, by its digits
JNum(digits) == [t |-> "number", v |-> digits]
JStr(str) == [t |-> "string", v |-> str]
JArr(items) == [t |-> "array", items |-> items]
JObj(fields) == [t |-> "object", fields |-> fields]

Garbled == [json |-> "invalid"]
Json(value) == [json |-> "valid", value |-> value]

\* the fields of SMSMessageView in declaration order, and their JSON types
ViewFields == <<"from", "to", "body", "timestamp", "conversation_id">>
FieldType(k) == IF k = "timestamp" THEN "number" ELSE "string"

\* what to_bytes writes for a message of conversation cid
MessageObject(cid) ==
    JObj([from |-> JStr("+1"), to |-> JStr("+2"), body |-> JStr("hi"),
          timestamp |-> JNum("1"), conversation_id |-> JStr(cid)])

\* the payloads a LazyMessage is made of: garbled bytes; JSON that is no
\* object; the same message as an object, as an object with one more field
\* and as an array of its fields; objects short of a field or with a
\* conversation_id that is no string; an object with conversation_id alone
Payloads ==
    { Garbled,
      Json(JNull), Json(JNum("7")), Json(JStr("sms_1")),
      Json(JArr(<<JStr("sms_1")>>)),
      Json(JArr(<<JStr("+1"), JStr("+2"), JStr("hi"), JNum("1"), JStr("sms_1")>>)),
      Json(MessageObject("sms_1")),
      Json(MessageObject("sms_2")),
      Json(JObj([from |-> JStr("+1"), to |-> JStr("+2"), body |-> JStr("hi"),
                 timestamp |-> JNum("1"), conversation_id |-> JStr("sms_1"),
                 media |-> JNull])),
      Json(JObj([from |-> JStr("+1"), to |-> JStr("+2"), body |-> JStr("hi"),
                 timestamp |-> JNum("1")])),
      Json(JObj([from |-> JStr("+1"), to |-> JStr("+2"), body |-> JStr("hi"),
                 timestamp |-> JNum("1"), conversation_id |-> JNum("5")])),
      Json(JObj([from |-> JStr("+1"), to |-> JStr("+2"), body |-> JStr("hi"),
                 timestamp |-> JNum("1"), conversation_id |-> JNull])),
      Json(JObj([conversation_id |-> JStr("sms_1")])) }

Ok(value) == [kind |-> "ok", value |-> value]
Err(context) == [kind |-> "err", context |-> context]

\* the derived Deserialize of SMSMessageView reading a JSON object: every
\* field present with its type, other fields ignored
ViewOfObject(fields) ==
    IF \A i \in 1..Len(ViewFields) :
          /\ ViewFields[i] \in DOMAIN fields
          /\ fields[ViewFields[i]].t = FieldType(ViewFields[i])
    THEN Ok([i \in 1..Len(ViewFields) |-> fields[ViewFields[i]].v])
    ELSE Err("Failed to deserialize SMS message")

\* the derived Deserialize reading a JSON array: the fields in declaration
\* order, as many as the struct has
ViewOfArray(items) ==
    IF /\ Len(items) = Len(ViewFields)
       /\ \A i \in 1..Len(ViewFields) : items[i].t = FieldType(ViewFields[i])
    THEN Ok([i \in 1..Len(ViewFields) |-> items[i].v])
    ELSE Err("Failed to deserialize SMS message")

\* SMSMessageView::from_bytes: serde_json::from_slice(bytes).context(..); a
\* view is the tuple of its field values in declaration order
FromBytes(payload) ==
    IF payload.json = "invalid" THEN Err("Failed to deserialize SMS message")
    ELSE IF payload.value.t = "object" THEN ViewOfObject(payload.value.fields)
    ELSE IF payload.value.t = "array" THEN ViewOfArray(payload.value.items)
    ELSE Err("Failed to deserialize SMS message")

\* the conversation_id of a view
ViewConversationId(view) == view[5]

\* value["conversation_id"]: Null when the value is no object or has no such key
IndexByKey(value, k) ==
    IF value.t = "object" /\ k \in DOMAIN value.fields THEN value.fields[k] ELSE JNull

\* Value::as_str followed by .map(|s| s.to_string()).context(..)
StrOrContext(value, context) ==
    IF value.t = "string" THEN Ok(value.v) ELSE Err(context)

\* SMSMessageView::extract_conversation_id
ExtractConversationId(payload) ==
    IF payload.json = "invalid" THEN Err("json")
    ELSE StrOrContext(IndexByKey(payload.value, "conversation_id"),
                      "Missing conversation_id field")

\* the tasks that call deserialize, and how many calls and clones are made
LazyTasks == {"t1", "t2"}
MaxCalls == 3
MaxClones == 1
Cells == 1..(MaxClones + 1)

NoView == [kind |-> "none"]
SomeView(view) == [kind |-> "some", view |-> view]
NoCid == [called |-> FALSE]

\* the derived Clone of LazyMessage: the Arc is cloned, the cell is shared
CloneCell(cell, fresh) == cell

\* faulty variant: the guard dropped after the look at the cache
CachedGuardDroppedEarly(t, to) == NoTask

\* the MutexGuard `cached` lives to the end of deserialize: it is still held
\* when the call goes on to from_bytes
CachedGuardAfter(t, to) == IF to = "parse" THEN t ELSE NoTask

\* no LazyMessage in use
InitLazyIdle ==
    /\ lazyRaw = Garbled
    /\ lazyHandles = <<>>
    /\ lazyCached = [c \in Cells |-> NoView]
    /\ lazyGuard = [c \in Cells |-> NoTask]
    /\ lazyPc = [t \in LazyTasks |-> "idle"]
    /\ lazyOn = [t \in LazyTasks |-> 0]
    /\ lazyParsed = <<>>
    /\ lazyReturned = <<>>
    /\ lazyCid = NoCid

InitSideIdle ==
    InitRolesIdle /\ InitConfigIdle /\ InitPublisherIdle /\ InitGenerateIdle /\ InitLazyIdle

(***************************************************************************)
(* The consumers, the store and SignalWire before any poll.                *)
(***************************************************************************)
InitConsumers ==
    /\ offset = [i \in ConsumerIds |-> [p \in Partitions |-> 0]]
    /\ polled = [c \in Consumers |-> <<>>]
    /\ cpc = [c \in Consumers |-> "poll"]
    /\ aiHistory = <<>>
    /\ aiResponse = <<>>
    /\ conversations = {}
    /\ messages = <<>>
    /\ updatedAt = [cid \in RouterConversationIds |-> 0]
    /\ sent = <<>>
    /\ delivered = [c \in Consumers |-> {}]
    /\ done = [c \in Consumers |-> {}]
    /\ dispatchFailed = {}
    /\ redelivered = 0

(***************************************************************************)
(* handle_incoming_sms up to the call of add_message.                      *)
(***************************************************************************)
BeginAdd(h, from) ==
    /\ pc[h] = "idle"
    /\ nextBody <= MaxMsgs
    /\ cur' = [cur EXCEPT ![h] = <<SMSMessage(from, nextBody)>>]
    /\ addPre' = [addPre EXCEPT ![nextBody] = Returned]
    /\ nextBody' = nextBody + 1
    /\ pc' = [pc EXCEPT ![h] = "lock"]
    /\ UNCHANGED <<codecVars, sideVars, buffer, lock, batch, groups, brokerVars, accepted, flushLog,
                   addRet, routed, processVars, consumerVars, storeVars, outcomeVars>>

\* self.buffer.lock().await, in add_message and in flush_if_needed
AcquireLock(t) ==
    /\ pc[t] = "lock"
    /\ lock = NoTask
    /\ lock' = t
    /\ pc' = [pc EXCEPT ![t] = "crit"]
    /\ UNCHANGED <<codecVars, sideVars, buffer, cur, batch, groups, nextBody, brokerVars, historyVars,
                   processVars, consumerVars, storeVars, outcomeVars>>

\* add_message under the lock: push, compare with batch_size, take or return
AddCritical(h) ==
    /\ h \in Handlers
    /\ pc[h] = "crit"
    /\ lock = h
    /\ LET m == cur[h][1]
           pushed == Append(buffer, m)
       IN  /\ accepted' = Append(accepted, [msg |-> m, by |-> h])
           /\ IF ShouldFlush(pushed)
              THEN /\ buffer' = MemTake(pushed).left
                   /\ batch' = [batch EXCEPT ![h] = MemTake(pushed).taken]
                   /\ groups' = [groups EXCEPT ![h] = PartitionsOf(pushed)]
                   /\ flushLog' = Append(flushLog,
                                         [kind |-> "size", by |-> h,
                                          batch |-> MemTake(pushed).taken])
                   /\ pc' = [pc EXCEPT ![h] = "publish"]
                   /\ UNCHANGED addRet
              ELSE /\ buffer' = pushed
                   /\ pc' = [pc EXCEPT ![h] = "idle"]
                   /\ addRet' = [addRet EXCEPT ![m.body] = "ok"]
                   /\ UNCHANGED <<batch, groups, flushLog>>
    /\ lock' = GuardAfterBlock(h, pc'[h])
    /\ cur' = [cur EXCEPT ![h] = IF pc'[h] = "idle" THEN <<>> ELSE @]
    /\ UNCHANGED <<codecVars, sideVars, nextBody, brokerVars, addPre, routed, processVars, consumerVars, storeVars, outcomeVars>>

\* the flush task wakes up after batch_timeout
TimerTick ==
    /\ pc[Timer] = "sleep"
    /\ pc' = [pc EXCEPT ![Timer] = "lock"]
    /\ UNCHANGED <<codecVars, sideVars, buffer, lock, cur, batch, groups, nextBody, brokerVars, historyVars,
                   processVars, consumerVars, storeVars, outcomeVars>>

\* flush_if_needed under the lock: return if empty, else take the buffer
FlushCritical ==
    /\ pc[Timer] = "crit"
    /\ lock = Timer
    /\ IF buffer = <<>>
       THEN /\ pc' = [pc EXCEPT ![Timer] = "sleep"]
            /\ UNCHANGED <<buffer, batch, groups, flushLog>>
       ELSE /\ buffer' = MemTake(buffer).left
            /\ batch' = [batch EXCEPT ![Timer] = MemTake(buffer).taken]
            /\ groups' = [groups EXCEPT ![Timer] = PartitionsOf(buffer)]
            /\ flushLog' = Append(flushLog,
                                  [kind |-> "timeout", by |-> Timer,
                                   batch |-> MemTake(buffer).taken])
            /\ pc' = [pc EXCEPT ![Timer] = "publish"]
    /\ lock' = GuardAfterBlock(Timer, pc'[Timer])
    /\ UNCHANGED <<codecVars, sideVars, cur, nextBody, brokerVars, accepted, addPre, addRet, routed,
                   processVars, consumerVars, storeVars, outcomeVars>>

\* faulty variant: the flush task ends on a failed flush (`?` in the loop)
FlushLoopEndingOnError(res) == IF res = "err" THEN "exited" ELSE "sleep"

\* the flush task's loop: if let Err(e) = flush_if_needed().await { error!(..) },
\* then the next sleep, whatever the result
FlushLoopAfter(res) == "sleep"

\* what the caller of publish_sms_batch does with its result
Finish(t, res) ==
    /\ pc' = [pc EXCEPT ![t] = IF t = Timer THEN FlushLoopAfter(res) ELSE "idle"]
    /\ batch' = [batch EXCEPT ![t] = <<>>]
    /\ groups' = [groups EXCEPT ![t] = {}]
    /\ IF t \in Handlers
       THEN /\ addRet' = [addRet EXCEPT ![cur[t][1].body] = res]
            /\ cur' = [cur EXCEPT ![t] = <<>>]
       ELSE UNCHANGED <<addRet, cur>>

\* publish_sms_batch: one send_messages for one partition group succeeds
PublishGroup(t, p) ==
    /\ pc[t] = "publish"
    /\ p \in groups[t]
    /\ routed' = routed \cup Sends(batch[t], p, "publish_sms_batch")
    /\ p \in Partitions
    /\ log' = [log EXCEPT ![p] = @ \o GroupOf(batch[t], p)]
    /\ IF groups[t] = {p}
       THEN Finish(t, "ok")
       ELSE /\ groups' = [groups EXCEPT ![t] = @ \ {p}]
            /\ UNCHANGED <<pc, batch, addRet, cur>>
    /\ UNCHANGED <<codecVars, sideVars, buffer, lock, nextBody, accepted, flushLog, addPre, processVars, consumerVars, storeVars, outcomeVars>>

\* publish_sms_batch: a send_messages fails, `?` returns the error
PublishFail(t, p) ==
    /\ pc[t] = "publish"
    /\ p \in groups[t]
    /\ routed' = routed \cup Sends(batch[t], p, "publish_sms_batch")
    /\ Finish(t, "err")
    /\ UNCHANGED <<codecVars, sideVars, buffer, lock, nextBody, brokerVars, accepted, flushLog, addPre,
                   processVars, consumerVars, storeVars, outcomeVars>>

NextBatcher ==
    \/ \E h \in Handlers, f \in Froms : BeginAdd(h, f)
    \/ \E t \in Tasks : AcquireLock(t)
    \/ \E h \in Handlers : AddCritical(h)
    \/ TimerTick
    \/ FlushCritical
    \/ \E t \in Tasks, p \in PartitionIds : PublishGroup(t, p)
    \/ \E t \in Tasks, p \in PartitionIds : PublishFail(t, p)

InitPipeline == InitBatcher /\ InitBroker /\ InitProcess /\ InitConsumers

InitSpecBatcher == InitPipeline /\ InitCodecIdle /\ InitSideIdle

SpecBatcher == InitSpecBatcher /\ [][NextBatcher]_vars

\* a step of the flush task: wake up, take the mutex, swap, publish
TimerStep ==
    \/ TimerTick
    \/ AcquireLock(Timer)
    \/ FlushCritical
    \/ \E p \in PartitionIds : PublishGroup(Timer, p) \/ PublishFail(Timer, p)

\* the sender of the n-th webhook of a run that alternates between the two
\* senders
AlternatingFrom(n) == IF n % 2 = 1 THEN <<43, 49>> ELSE <<43, 49, 50>>

\* the batcher fed by webhooks whose senders alternate
NextBatcherFair ==
    \/ \E h \in Handlers : BeginAdd(h, AlternatingFrom(nextBody))
    \/ \E t \in Tasks : AcquireLock(t)
    \/ \E h \in Handlers : AddCritical(h)
    \/ TimerTick
    \/ FlushCritical
    \/ \E t \in Tasks, p \in PartitionIds : PublishGroup(t, p)
    \/ \E t \in Tasks, p \in PartitionIds : PublishFail(t, p)

\* the flush task is scheduled again and again (tokio::spawn'ed loop whose
\* sleep and publish return), and a handler inside its locked block, which
\* has no await point, leaves it
SpecBatcherFair ==
    /\ InitSpecBatcher
    /\ [][NextBatcherFair]_vars
    /\ WF_vars(TimerStep)
    /\ \A h \in Handlers : WF_vars(AddCritical(h))

(***************************************************************************)
(* The producer process: publish_sms, one message per call.                *)
(***************************************************************************)
PublishSms(from) ==
    /\ producer = "running"
    /\ nextBody <= MaxRouted
    /\ LET sms == SMSMessage(from, nextBody)
           p == GetPartitionForConversation(sms.conversation_id)
       IN  /\ routed' = routed \cup Sends(<<sms>>, p, "publish_sms")
           /\ \/ /\ p \in Partitions
                 /\ log' = [log EXCEPT ![p] = Append(@, sms)]
                 /\ UNCHANGED producer
              \/ /\ producer' = "failed"
                 /\ UNCHANGED log
    /\ nextBody' = nextBody + 1
    /\ UNCHANGED <<codecVars, sideVars, buffer, lock, pc, cur, batch, groups, accepted, flushLog,
                   addPre, addRet, epoch, consumerVars, storeVars, outcomeVars>>

(***************************************************************************)
(* The server process is restarted: its tasks and its buffer are gone, and *)
(* MessageBroker::new deletes the stream and creates it again.             *)
(***************************************************************************)
\* the partitions after initialize_stream and initialize_topic, l being what they
\* held before: delete_stream drops the stream with its topic and messages, then
\* create_stream and create_topic make a stream with 4 empty partitions
InitializeStream(l) == [p \in Partitions |-> <<>>]

Restart ==
    /\ epoch < MaxRestarts
    /\ epoch' = epoch + 1
    /\ buffer' = <<>>
    /\ lock' = NoTask
    /\ pc' = [t \in Tasks |-> IF t = Timer THEN "sleep" ELSE "idle"]
    /\ cur' = [h \in Handlers |-> <<>>]
    /\ batch' = [t \in Tasks |-> <<>>]
    /\ groups' = [t \in Tasks |-> {}]
    /\ log' = InitializeStream(log)
    /\ offset' = [i \in ConsumerIds |-> [p \in Partitions |-> 0]]
    /\ UNCHANGED <<codecVars, sideVars, nextBody, historyVars, producer, polled, cpc, aiHistory,
                   aiResponse, redelivered, storeVars, outcomeVars>>

NextRouter ==
    \/ \E f \in RouterFroms : PublishSms(f)
    \/ \E f \in RouterFroms : nextBody <= MaxRouted /\ BeginAdd("h1", f)
    \/ \E t \in Tasks : AcquireLock(t)
    \/ AddCritical("h1")
    \/ TimerTick
    \/ FlushCritical
    \/ \E t \in Tasks, p \in PartitionIds : PublishGroup(t, p)
    \/ \E t \in Tasks, p \in PartitionIds : PublishFail(t, p)
    \/ Restart

SpecRouter == InitSpecBatcher /\ [][NextRouter]_vars

(***************************************************************************)
(* The consumers.  Both run poll_and_process in a loop: one poll with      *)
(* auto-commit, then process_message for each polled message in turn.      *)
(* The partition a poll with partition_id None reads is chosen by the      *)
(* broker; every partition of the topic can be chosen.                     *)
(***************************************************************************)
Min(a, b) == IF a <= b THEN a ELSE b

\* the first step of process_message of each consumer
FirstStep(c) == IF c = Turso THEN "lookup" ELSE "history"

(***************************************************************************)
(* A payload on the topic is either the JSON text serde_json::to_vec wrote *)
(* for an SMSMessage, held as the record of its fields, or the bytes some  *)
(* other producer of the same stream and topic sent: the benchmark sends   *)
(* message_size zero bytes, held as [zeros |-> message_size].              *)
(***************************************************************************)
\* vec![0u8; message_size]
BenchPayload(size) == [zeros |-> size]

\* lazy_msg.deserialize() returns Ok: serde_json::from_slice finds the fields of
\* SMSMessageView
Deserializes(payload) == {"from", "body", "conversation_id"} \subseteq DOMAIN payload

BodiesOf(msgs) == { msgs[i].body : i \in { j \in 1..Len(msgs) : Deserializes(msgs[j]) } }

\* poll_messages(stream, topic, None, consumer, PollingStrategy::next(), 10, true)
Poll(c, p) ==
    /\ cpc[c] = "poll"
    /\ LET id == ConsumerMemberId[c]
           last == Min(Len(log[p]), offset[id][p] + PollCount)
           msgs == SubSeq(log[p], offset[id][p] + 1, last)
       IN  /\ offset' = IF AutoCommit THEN [offset EXCEPT ![id][p] = last]
                                      ELSE offset
           /\ polled' = [polled EXCEPT ![c] = msgs]
           /\ delivered' = [delivered EXCEPT ![c] = @ \cup BodiesOf(msgs)]
           /\ cpc' = [cpc EXCEPT ![c] = IF msgs = <<>> THEN "poll" ELSE FirstStep(c)]
    /\ UNCHANGED <<codecVars, sideVars, batcherVars, brokerVars, historyVars, processVars, aiHistory,
                   aiResponse, redelivered, storeVars, sent, done, dispatchFailed>>

\* the for loop moves to the next polled message; res is what process_message returned
NextPolled(c, res) ==
    /\ polled' = [polled EXCEPT ![c] = Tail(@)]
    /\ cpc' = [cpc EXCEPT ![c] = IF Len(polled[c]) = 1 THEN "poll" ELSE FirstStep(c)]
    /\ done' = [done EXCEPT ![c] = IF res = "ok" THEN @ \cup {polled[c][1].body} ELSE @]

\* lazy_msg.deserialize() returns an error and `?` returns it from poll_and_process:
\* the for loop is left, start logs the error, sleeps and polls again
DecodeFail(c) ==
    /\ cpc[c] = FirstStep(c)
    /\ ~Deserializes(polled[c][1])
    /\ polled' = [polled EXCEPT ![c] = <<>>]
    /\ cpc' = [cpc EXCEPT ![c] = "poll"]
    /\ UNCHANGED <<codecVars, sideVars, batcherVars, brokerVars, historyVars, processVars, offset,
                   aiHistory, aiResponse, redelivered, storeVars, outcomeVars>>

\* poll_messages returns an error and `?` returns it: start logs it, sleeps and
\* polls again
PollFail(c) ==
    /\ cpc[c] = "poll"
    /\ UNCHANGED vars

\* Message::new(conversation_id, role, content) as a row of table messages
Row(cid, role, content) == [conversation_id |-> cid, role |-> role, content |-> content]

(***************************************************************************)
(* TursoConsumer::process_message                                          *)
(***************************************************************************)
\* faulty variant: the row keyed by the sender's number, not by conversation.id
UserRowByFrom(sms) == Row(sms.from, "user", sms.body)

\* the row store_message(conversation.id, MessageRole::User, sms.body) inserts
UserRow(sms) == Row(sms.conversation_id, "user", sms.body)

\* Utc::now(), as a logical time: the number of rows inserted in table messages
\* so far; the created_at of row j is j
Now(rows) == Len(rows)

\* UPDATE conversations SET updated_at = t WHERE id = cid
UpdatedAtSet(u, cid, t) == IF cid \in conversations THEN [u EXCEPT ![cid] = t] ELSE u

\* get_conversation returns Ok(Some(conv))
TursoLookupFound ==
    /\ cpc[Turso] = "lookup"
    /\ Deserializes(polled[Turso][1])
    /\ polled[Turso][1].conversation_id \in conversations
    /\ cpc' = [cpc EXCEPT ![Turso] = "store"]
    /\ UNCHANGED <<codecVars, sideVars, batcherVars, brokerVars, historyVars, processVars, offset, polled,
                   aiHistory, aiResponse, redelivered, storeVars, outcomeVars>>

\* get_conversation returns Ok(None), create_conversation_with_id succeeds
TursoLookupCreate ==
    /\ cpc[Turso] = "lookup"
    /\ Deserializes(polled[Turso][1])
    /\ polled[Turso][1].conversation_id \notin conversations
    /\ conversations' = conversations \cup {polled[Turso][1].conversation_id}
    /\ updatedAt' = [updatedAt EXCEPT ![polled[Turso][1].conversation_id] = Now(messages)]
    /\ cpc' = [cpc EXCEPT ![Turso] = "store"]
    /\ UNCHANGED <<codecVars, sideVars, batcherVars, brokerVars, historyVars, processVars, offset, polled,
                   aiHistory, aiResponse, redelivered, messages, outcomeVars>>

\* get_conversation or create_conversation_with_id returns an error
TursoLookupFail ==
    /\ cpc[Turso] = "lookup"
    /\ Deserializes(polled[Turso][1])
    /\ NextPolled(Turso, "err")
    /\ UNCHANGED <<codecVars, sideVars, batcherVars, brokerVars, historyVars, processVars, offset,
                   aiHistory, aiResponse, redelivered, storeVars, sent, delivered,
                   dispatchFailed>>

\* store_message(conversation.id, MessageRole::User, sms.body) returns Ok
TursoStoreOk ==
    /\ cpc[Turso] = "store"
    /\ LET sms == polled[Turso][1]
       IN  /\ messages' = Append(messages, UserRow(sms))
           /\ updatedAt' = UpdatedAtSet(updatedAt, sms.conversation_id, Now(messages'))
    /\ NextPolled(Turso, "ok")
    /\ UNCHANGED <<codecVars, sideVars, batcherVars, brokerVars, historyVars, processVars, offset,
                   aiHistory, aiResponse, redelivered, conversations, sent, delivered,
                   dispatchFailed>>

\* store_message returns an error: from the INSERT, or from the UPDATE after it
TursoStoreFail(inserted) ==
    /\ cpc[Turso] = "store"
    /\ LET sms == polled[Turso][1]
       IN  messages' = IF inserted
                       THEN Append(messages, UserRow(sms))
                       ELSE messages
    /\ UNCHANGED updatedAt
    /\ NextPolled(Turso, "err")
    /\ UNCHANGED <<codecVars, sideVars, batcherVars, brokerVars, historyVars, processVars, offset,
                   aiHistory, aiResponse, redelivered, conversations, sent, delivered,
                   dispatchFailed>>

(***************************************************************************)
(* AIConsumer::process_message                                             *)
(***************************************************************************)
\* get_conversation_messages: the rows of one conversation, in created_at order
GetConversationMessages(cid) ==
    LET Of(r) == r.conversation_id = cid
    IN  SelectSeq(messages, Of)

\* messages.iter().take(messages.len().saturating_sub(1))
AllButLast(s) == IF Len(s) = 0 THEN <<>> ELSE SubSeq(s, 1, Len(s) - 1)

\* history.split_off(history.len() - 10) when history.len() > 10
LastOf(s, n) == IF Len(s) > n THEN SubSeq(s, Len(s) - n + 1, Len(s)) ELSE s

AIMessages(rows) == [i \in 1..Len(rows) |-> [role |-> rows[i].role, content |-> rows[i].content]]

HistoryOf(cid) == LastOf(AIMessages(AllButLast(GetConversationMessages(cid))), HistoryCap)

\* get_conversation_messages returns Ok; history is built
AiHistoryOk ==
    /\ cpc[AI] = "history"
    /\ Deserializes(polled[AI][1])
    /\ aiHistory' = HistoryOf(polled[AI][1].conversation_id)
    /\ cpc' = [cpc EXCEPT ![AI] = "generate"]
    /\ UNCHANGED <<codecVars, sideVars, batcherVars, brokerVars, historyVars, processVars, offset, polled,
                   aiResponse, redelivered, storeVars, outcomeVars>>

\* get_conversation_messages returns an error, `?` returns it
AiHistoryFail ==
    /\ cpc[AI] = "history"
    /\ Deserializes(polled[AI][1])
    /\ NextPolled(AI, "err")
    /\ UNCHANGED <<codecVars, sideVars, batcherVars, brokerVars, historyVars, processVars, offset,
                   aiHistory, aiResponse, redelivered, storeVars, sent, delivered,
                   dispatchFailed>>

\* the reply texts: what the model answered, or the apology of unwrap_or_else; reply_to
\* names the inbound message the text was produced for
Reply(kind, sms) == [reply_to |-> sms.body, text |-> kind]

\* faulty variant: the apology text is sent without the store_message call
AfterGenerateSkippingStore(kind) == IF kind = "fallback" THEN "send" ELSE "persist"

\* where process_message goes on after generate_response(..).unwrap_or_else(..):
\* the closure yields a String, no error leaves the function here
AfterGenerate(kind) == "persist"

\* generate_response(..).unwrap_or_else(..)
AiGenerate(kind) ==
    /\ cpc[AI] = "generate"
    /\ aiResponse' = <<Reply(kind, polled[AI][1])>>
    /\ cpc' = [cpc EXCEPT ![AI] = AfterGenerate(kind)]
    /\ UNCHANGED <<codecVars, sideVars, batcherVars, brokerVars, historyVars, processVars, offset, polled,
                   aiHistory, redelivered, storeVars, outcomeVars>>

\* let _ = store_message(sms.conversation_id, MessageRole::Assistant, ai_response):
\* the INSERT took effect or not, and after it the UPDATE did or not
AiPersist(inserted, bumped) ==
    /\ cpc[AI] = "persist"
    /\ bumped => inserted
    /\ messages' = IF inserted
                   THEN Append(messages, Row(polled[AI][1].conversation_id, "assistant",
                                             aiResponse[1]))
                   ELSE messages
    /\ updatedAt' = IF bumped
                    THEN UpdatedAtSet(updatedAt, polled[AI][1].conversation_id,
                                      Now(messages'))
                    ELSE updatedAt
    /\ cpc' = [cpc EXCEPT ![AI] = "send"]
    /\ UNCHANGED <<codecVars, sideVars, batcherVars, brokerVars, historyVars, processVars, offset, polled,
                   aiHistory, aiResponse, redelivered, conversations, outcomeVars>>

\* send_sms(&sms.from, &ai_response) returns Ok
AiSendOk ==
    /\ cpc[AI] = "send"
    /\ sent' = Append(sent, [to |-> polled[AI][1].from, body |-> aiResponse[1]])
    /\ aiHistory' = <<>>
    /\ aiResponse' = <<>>
    /\ NextPolled(AI, "ok")
    /\ UNCHANGED <<codecVars, sideVars, batcherVars, brokerVars, historyVars, processVars, offset,
                   redelivered, storeVars, delivered, dispatchFailed>>

\* send_sms returns an error, `?` returns it; the caller logs it and goes on
AiSendFail ==
    /\ cpc[AI] = "send"
    /\ dispatchFailed' = dispatchFailed \cup {polled[AI][1].body}
    /\ aiHistory' = <<>>
    /\ aiResponse' = <<>>
    /\ NextPolled(AI, "err")
    /\ UNCHANGED <<codecVars, sideVars, batcherVars, brokerVars, historyVars, processVars, offset,
                   redelivered, storeVars, sent, delivered>>

ReplyKinds == {"generated", "fallback"}

NextConsumers ==
    \/ \E f \in Froms : PublishSms(f)
    \/ \E c \in Consumers, p \in Partitions : Poll(c, p)
    \/ TursoLookupFound
    \/ TursoLookupCreate
    \/ TursoLookupFail
    \/ TursoStoreOk
    \/ \E inserted \in BOOLEAN : TursoStoreFail(inserted)
    \/ AiHistoryOk
    \/ AiHistoryFail
    \/ \E kind \in ReplyKinds : AiGenerate(kind)
    \/ \E inserted, bumped \in BOOLEAN : AiPersist(inserted, bumped)
    \/ AiSendOk
    \/ AiSendFail

SpecConsumers == InitSpecBatcher /\ [][NextConsumers]_vars

(***************************************************************************)
(* At-least-once delivery: the broker hands a message out again, its       *)
(* stored offset having fallen back behind a message it already delivered. *)
(***************************************************************************)
Redeliver(id, p) ==
    /\ redelivered < MaxRedeliver
    /\ offset[id][p] > 0
    /\ offset' = [offset EXCEPT ![id][p] = @ - 1]
    /\ redelivered' = redelivered + 1
    /\ UNCHANGED <<codecVars, sideVars, batcherVars, brokerVars, historyVars, processVars, polled, cpc,
                   aiHistory, aiResponse, storeVars, outcomeVars>>

NextRedelivery ==
    \/ NextConsumers
    \/ \E id \in ConsumerIds, p \in Partitions : Redeliver(id, p)

SpecRedelivery == InitSpecBatcher /\ [][NextRedelivery]_vars

(***************************************************************************)
(* The consumers next to the benchmark producer, which sends its payloads  *)
(* to partition 1 of the stream and topic the consumers poll.              *)
(***************************************************************************)
MaxBench == 1

\* let partition_id = 1
BenchPartition == 1

MessageSizes == {0, 64}

\* senders whose conversation is routed to the partition the benchmark writes to
DecodeFroms == { f \in RouterFroms :
                   GetPartitionForConversation(ConversationIdOf(f)) = BenchPartition }

BenchCount == Cardinality({ i \in 1..Len(log[BenchPartition]) :
                              ~Deserializes(log[BenchPartition][i]) })

\* send_messages(stream 1, topic 1, Partitioning::partition_id(1), payloads of zeros)
BenchSend(size) ==
    /\ BenchCount < MaxBench
    /\ log' = [log EXCEPT ![BenchPartition] = Append(@, BenchPayload(size))]
    /\ UNCHANGED <<codecVars, sideVars, batcherVars, historyVars, processVars, consumerVars,
                   storeVars, outcomeVars>>

\* one step of consumer c after its poll
ConsumerStep(c) ==
    \/ DecodeFail(c)
    \/ /\ c = Turso
       /\ \/ TursoLookupFound
          \/ TursoLookupCreate
          \/ TursoLookupFail
          \/ TursoStoreOk
          \/ \E inserted \in BOOLEAN : TursoStoreFail(inserted)
    \/ /\ c = AI
       /\ \/ AiHistoryOk
          \/ AiHistoryFail
          \/ \E kind \in ReplyKinds : AiGenerate(kind)
          \/ \E inserted, bumped \in BOOLEAN : AiPersist(inserted, bumped)
          \/ AiSendOk
          \/ AiSendFail

NextDecode ==
    \/ \E size \in MessageSizes : BenchSend(size)
    \/ \E f \in DecodeFroms : PublishSms(f)
    \/ \E c \in Consumers, p \in Partitions : Poll(c, p)
    \/ \E c \in Consumers : PollFail(c)
    \/ \E c \in Consumers : ConsumerStep(c)

SpecDecode == InitSpecBatcher /\ [][NextDecode]_vars

\* the runtime keeps scheduling both consumer tasks: a consumer that has polled
\* messages goes on with them
SpecDecodeFair == SpecDecode /\ \A c \in Consumers : WF_vars(ConsumerStep(c))

(***************************************************************************)
(* The codec on its own: a list of byte-slices is encoded once, then get   *)
(* and two iterators are used on the batch in any order.                   *)
(***************************************************************************)
InitCodec ==
    /\ InitPipeline
    /\ InitSideIdle
    /\ input \in SliceLists
    /\ overflowChecks \in BOOLEAN
    /\ mb = NoBatch
    /\ got = NoGet
    /\ iters = [k \in Iterators |-> NoIter]
    /\ yielded = [k \in Iterators |-> <<>>]

\* let batch = MessageBatch::from_messages(&input)
FromMessagesCall ==
    /\ ~mb.built
    /\ ~mb.panicked
    /\ mb' = FromMessages(input, overflowChecks)
    /\ UNCHANGED <<pipelineVars, sideVars, input, overflowChecks, got, iters, yielded>>

\* batch.get(index)
GetCall(index) ==
    /\ mb.built
    /\ got' = [called |-> TRUE, index |-> index, result |-> Get(mb, index)]
    /\ UNCHANGED <<pipelineVars, sideVars, input, overflowChecks, mb, iters, yielded>>

\* let it = batch.iter(), in place of iterator k if there was one
IterCall(k) ==
    /\ mb.built
    /\ iters' = [iters EXCEPT ![k] = Iter(mb)]
    /\ yielded' = [yielded EXCEPT ![k] = <<>>]
    /\ UNCHANGED <<pipelineVars, sideVars, input, overflowChecks, mb, got>>

\* iterator k has returned None or has panicked
Ended(k) ==
    yielded[k] # <<>> /\ yielded[k][Len(yielded[k])].kind # "some"

\* it.next(), until it has returned None once
NextCall(k) ==
    /\ iters[k].alive
    /\ ~Ended(k)
    /\ yielded' = [yielded EXCEPT ![k] = Append(@, NextItem(iters[k]))]
    /\ iters' = [iters EXCEPT ![k] = NextIter(@)]
    /\ UNCHANGED <<pipelineVars, sideVars, input, overflowChecks, mb, got>>

\* indices tried with get: all of the longest list and two past its end
GetIndices == 0..(MaxSlices + 1)

NextCodec ==
    \/ FromMessagesCall
    \/ \E index \in GetIndices : GetCall(index)
    \/ \E k \in Iterators : IterCall(k)
    \/ \E k \in Iterators : NextCall(k)

SpecCodec == InitCodec /\ [][NextCodec]_vars

(***************************************************************************)
(* The role column: rows are written to table messages, read back by       *)
(* get_conversation_messages, and roles go through as_str and from_str.    *)
(***************************************************************************)
\* a row with role string s is in the table, whoever wrote it
StoreRow(s) ==
    /\ Len(roleRows) < MaxRows
    /\ roleRows' = Append(roleRows, s)
    /\ UNCHANGED <<restOfRoles, roleRead, roleTrip>>

\* get_conversation_messages(conversation_id)
ReadRows ==
    /\ roleRead' = [called |-> TRUE, rows |-> roleRows, result |-> GetRowsRoles(roleRows)]
    /\ UNCHANGED <<restOfRoles, roleRows, roleTrip>>

\* MessageRole::from_str(r.as_str())
RoundTrip(r) ==
    /\ roleTrip' = [called |-> TRUE, role |-> r, back |-> FromStr(AsStr(r))]
    /\ UNCHANGED <<restOfRoles, roleRows, roleRead>>

NextRoles ==
    \/ \E s \in RoleStrings : StoreRow(s)
    \/ ReadRows
    \/ \E r \in Roles : RoundTrip(r)

SpecRoles == InitSpecBatcher /\ [][NextRoles]_vars

(***************************************************************************)
(* The consumer binary starting in some environment.                       *)
(***************************************************************************)
InitConfig ==
    /\ InitPipeline
    /\ InitCodecIdle
    /\ InitLazyIdle
    /\ InitRolesIdle
    /\ InitPublisherIdle
    /\ InitGenerateIdle
    /\ env \in [Settings -> {Absent, Given}]
    /\ config = NoConfig
    /\ mainPc = "load"

\* let config = Arc::new(AppConfig::load()?)
LoadConfig ==
    /\ mainPc = "load"
    /\ config' = Load(env)
    /\ mainPc' = IF config'.kind = "ok" THEN "store" ELSE "exited"
    /\ UNCHANGED <<restOfConfig, env>>

\* store.initialize().await?, then the services are built from the configuration
StoreInitialize(ok) ==
    /\ mainPc = "store"
    /\ mainPc' = IF ok THEN "connect" ELSE "exited"
    /\ UNCHANGED <<restOfConfig, env, config>>

\* connect_iggy().await? for both consumers, then both consumers are started
ConnectIggy(ok) ==
    /\ mainPc = "connect"
    /\ mainPc' = IF ok THEN "consume" ELSE "exited"
    /\ UNCHANGED <<restOfConfig, env, config>>

NextConfig ==
    \/ LoadConfig
    \/ \E ok \in BOOLEAN : StoreInitialize(ok)
    \/ \E ok \in BOOLEAN : ConnectIggy(ok)

SpecConfig == InitConfig /\ [][NextConfig]_vars

(***************************************************************************)
(* publish_sms_batch called once with some batch; the HashMap of the       *)
(* partition groups is iterated in any order.                              *)
(***************************************************************************)
InitPublisher ==
    /\ InitPipeline
    /\ InitCodecIdle
    /\ InitLazyIdle
    /\ InitRolesIdle
    /\ InitConfigIdle
    /\ InitGenerateIdle
    /\ pubBatch \in BatchesUpTo(MaxBatch)
    /\ pubGroups = {}
    /\ pubAppends = <<>>
    /\ pubRet = "none"
    /\ pubPc = "call"

\* up to the for loop over partition_groups: the early return on an empty batch,
\* the serialization and the grouping
PublishCall ==
    /\ pubPc = "call"
    /\ IF pubBatch = <<>>
       THEN /\ pubRet' = "ok"
            /\ pubPc' = "returned"
            /\ UNCHANGED pubGroups
       ELSE /\ pubGroups' = PartitionsOf(pubBatch)
            /\ pubPc' = "send"
            /\ UNCHANGED pubRet
    /\ UNCHANGED <<restOfPublisher, pubBatch, pubAppends>>

\* the loop visits the group of partition p
SendCall(p, ok) ==
    [partition |-> p, msgs |-> GroupOf(pubBatch, p), ok |-> ok]

\* send_messages for the group of partition p returns Ok
SendOk(p) ==
    /\ pubPc = "send"
    /\ p \in pubGroups
    /\ pubAppends' = Append(pubAppends, SendCall(p, TRUE))
    /\ pubGroups' = pubGroups \ {p}
    /\ pubRet' = IF pubGroups' = {} THEN "ok" ELSE "none"
    /\ pubPc' = IF pubGroups' = {} THEN "returned" ELSE "send"
    /\ UNCHANGED <<restOfPublisher, pubBatch>>

\* send_messages for the group of partition p returns an error
SendFail(p) ==
    /\ pubPc = "send"
    /\ p \in pubGroups
    /\ pubAppends' = Append(pubAppends, SendCall(p, FALSE))
    /\ pubGroups' = OnSendError(pubGroups, p).groups
    /\ pubRet' = OnSendError(pubGroups, p).ret
    /\ pubPc' = IF pubGroups' = {} THEN "returned" ELSE "send"
    /\ UNCHANGED <<restOfPublisher, pubBatch>>

NextPublisher ==
    \/ PublishCall
    \/ \E p \in Partitions : SendOk(p)
    \/ \E p \in Partitions : SendFail(p)

SpecPublisher == InitPublisher /\ [][NextPublisher]_vars

(***************************************************************************)
(* generate_response called once with some history; each request ends in   *)
(* one of the four ways, at the latest when the 30 s timeout of the client *)
(* expires.                                                                *)
(***************************************************************************)
InitGenerate ==
    /\ InitPipeline
    /\ InitCodecIdle
    /\ InitLazyIdle
    /\ InitRolesIdle
    /\ InitConfigIdle
    /\ InitPublisherIdle
    /\ genHistory \in { Turns(h) : h \in 0..MaxHistory }
    /\ genRequest = <<>>
    /\ genAttempt = 0
    /\ genOutcomes = <<>>
    /\ genRet = NoReturn
    /\ genPc = "build"

\* up to the for loop: the request is built
BuildRequest ==
    /\ genPc = "build"
    /\ genRequest' = RequestMessages(genHistory)
    /\ genAttempt' = 1
    /\ genPc' = "send"
    /\ UNCHANGED <<restOfGenerate, genHistory, genOutcomes, genRet>>

\* one iteration of the for loop: the request is sent and ends with outcome o
Respond(o) ==
    /\ genPc = "send"
    /\ genOutcomes' = Append(genOutcomes, o)
    /\ IF o = "reply"
       THEN /\ genRet' = [kind |-> "ok", reply_to |-> genRequest]
            /\ genPc' = "returned"
            /\ UNCHANGED genAttempt
       ELSE IF o = "bad_body" \/ IsLastAttempt(genAttempt)
       THEN /\ genRet' = [kind |-> "err", after |-> genAttempt]
            /\ genPc' = "returned"
            /\ UNCHANGED genAttempt
       ELSE IF genAttempt < LoopAttempts
       THEN /\ genAttempt' = genAttempt + 1
            /\ UNCHANGED <<genRet, genPc>>
       ELSE /\ genPc' = "unreachable"
            /\ UNCHANGED <<genRet, genAttempt>>
    /\ UNCHANGED <<restOfGenerate, genHistory, genRequest>>

NextGenerate ==
    \/ BuildRequest
    \/ \E o \in Outcomes : Respond(o)

\* the call is not suspended for ever: the task is scheduled and every request
\* ends, by the timeout of the client if by nothing else
SpecGenerate == InitGenerate /\ [][NextGenerate]_vars /\ WF_vars(NextGenerate)

(***************************************************************************)
(* LazyMessage on its own: one message made by LazyMessage::new, cloned    *)
(* and deserialized by two tasks.                                          *)
(***************************************************************************)
InitLazy ==
    /\ InitPipeline
    /\ InitCodecIdle
    /\ InitRolesIdle
    /\ InitConfigIdle
    /\ InitPublisherIdle
    /\ InitGenerateIdle
    /\ lazyRaw \in Payloads
    /\ lazyHandles = <<1>>
    /\ lazyCached = [c \in Cells |-> NoView]
    /\ lazyGuard = [c \in Cells |-> NoTask]
    /\ lazyPc = [t \in LazyTasks |-> "idle"]
    /\ lazyOn = [t \in LazyTasks |-> 0]
    /\ lazyParsed = <<>>
    /\ lazyReturned = <<>>
    /\ lazyCid = NoCid

\* the cell behind the handle task t called deserialize on
CellOf(t) == lazyHandles[lazyOn[t]]

\* handle h.clone()
LazyClone(h) ==
    /\ h \in 1..Len(lazyHandles)
    /\ Len(lazyHandles) <= MaxClones
    /\ lazyHandles' = Append(lazyHandles, CloneCell(lazyHandles[h], Len(lazyHandles) + 1))
    /\ UNCHANGED <<restOfLazy, lazyRaw, lazyCached, lazyGuard, lazyPc, lazyOn,
                   lazyParsed, lazyReturned, lazyCid>>

\* task t calls deserialize() on handle h
DeserializeCall(t, h) ==
    /\ lazyPc[t] = "idle"
    /\ h \in 1..Len(lazyHandles)
    /\ Len(lazyReturned) + Cardinality({ u \in LazyTasks : lazyPc[u] # "idle" }) < MaxCalls
    /\ lazyOn' = [lazyOn EXCEPT ![t] = h]
    /\ lazyPc' = [lazyPc EXCEPT ![t] = "lock"]
    /\ UNCHANGED <<restOfLazy, lazyRaw, lazyHandles, lazyCached, lazyGuard,
                   lazyParsed, lazyReturned, lazyCid>>

\* let mut cached = self.cached.lock().unwrap()
DeserializeLock(t) ==
    /\ lazyPc[t] = "lock"
    /\ lazyGuard[CellOf(t)] = NoTask
    /\ lazyGuard' = [lazyGuard EXCEPT ![CellOf(t)] = t]
    /\ lazyPc' = [lazyPc EXCEPT ![t] = "check"]
    /\ UNCHANGED <<restOfLazy, lazyRaw, lazyHandles, lazyCached, lazyOn,
                   lazyParsed, lazyReturned, lazyCid>>

\* if let Some(msg) = cached.as_ref() { return Ok(msg.clone()); }
DeserializeCheck(t) ==
    /\ lazyPc[t] = "check"
    /\ IF lazyCached[CellOf(t)].kind = "some"
       THEN /\ lazyReturned' = Append(lazyReturned,
                                     [task |-> t, handle |-> lazyOn[t],
                                      result |-> Ok(lazyCached[CellOf(t)].view)])
            /\ lazyPc' = [lazyPc EXCEPT ![t] = "idle"]
       ELSE /\ lazyPc' = [lazyPc EXCEPT ![t] = "parse"]
            /\ UNCHANGED lazyReturned
    /\ lazyGuard' = [lazyGuard EXCEPT ![CellOf(t)] =
                        IF @ = t THEN CachedGuardAfter(t, lazyPc'[t]) ELSE @]
    /\ UNCHANGED <<restOfLazy, lazyRaw, lazyHandles, lazyCached, lazyOn,
                   lazyParsed, lazyCid>>

\* let msg = SMSMessageView::from_bytes(&self.raw)?; *cached = Some(msg.clone());
\* Ok(msg): the guard is dropped on either return
DeserializeParse(t) ==
    /\ lazyPc[t] = "parse"
    /\ LET r == FromBytes(lazyRaw)
       IN  /\ lazyParsed' = Append(lazyParsed, [task |-> t, kind |-> r.kind])
           /\ lazyCached' = IF r.kind = "ok"
                            THEN [lazyCached EXCEPT ![CellOf(t)] = SomeView(r.value)]
                            ELSE lazyCached
           /\ lazyReturned' = Append(lazyReturned,
                                     [task |-> t, handle |-> lazyOn[t], result |-> r])
    /\ lazyPc' = [lazyPc EXCEPT ![t] = "idle"]
    /\ lazyGuard' = [lazyGuard EXCEPT ![CellOf(t)] = IF @ = t THEN NoTask ELSE @]
    /\ UNCHANGED <<restOfLazy, lazyRaw, lazyHandles, lazyOn, lazyCid>>

\* handle h.conversation_id(): extract_conversation_id(&self.raw)
ConversationIdCall(h) ==
    /\ h \in 1..Len(lazyHandles)
    /\ lazyCid' = [called |-> TRUE, handle |-> h,
                   result |-> ExtractConversationId(lazyRaw)]
    /\ UNCHANGED <<restOfLazy, lazyRaw, lazyHandles, lazyCached, lazyGuard, lazyPc,
                   lazyOn, lazyParsed, lazyReturned>>

LazyHandles == 1..(MaxClones + 1)

NextLazy ==
    \/ \E h \in LazyHandles : LazyClone(h)
    \/ \E t \in LazyTasks, h \in LazyHandles : DeserializeCall(t, h)
    \/ \E t \in LazyTasks : DeserializeLock(t)
    \/ \E t \in LazyTasks : DeserializeCheck(t)
    \/ \E t \in LazyTasks : DeserializeParse(t)
    \/ \E h \in LazyHandles : ConversationIdCall(h)

SpecLazy == InitLazy /\ [][NextLazy]_vars

(***************************************************************************)
(* Delivery, offsets and replies.                                          *)
(***************************************************************************)
\* the stored offset of consumer c's identity is at or past position i of partition p
Committed(c, p, i) == i <= offset[ConsumerMemberId[c]][p]

Positions(p) == 1..Len(log[p])

\* the ids of the messages recorded as processed: the store has the tables
\* conversations and messages only, and process_message records nothing else
ProcessedLedger == {}

\* the inbound messages a reply was dispatched for
Replied == { sent[i].body.reply_to : i \in 1..Len(sent) }

\* C1: fan-out. The read position of a consumer moves only by its own polls:
\* every message its stored offset has passed was returned to it by one of
\* its polls, never taken by a poll of the other consumer.
C1_FanOut ==
    \A c \in Consumers : \A p \in Partitions : \A i \in Positions(p) :
        Committed(c, p, i) => log[p][i].body \in delivered[c]

\* C2: the offset covering a message a consumer received is advanced only
\* after process_message has completed for it: a committed message is one
\* whose processing finished successfully.
C2_CommitAfterSideEffects ==
    \A c \in Consumers : \A p \in Partitions : \A i \in Positions(p) :
        (Committed(c, p, i) /\ log[p][i].body \in delivered[c])
            => log[p][i].body \in done[c]

\* C3: however often a message is delivered to the Reply Consumer, there is
\* at most one assistant row and at most one outbound send for it.
C3_ReplyIdempotent ==
    \A b \in 1..MaxRouted :
        /\ Cardinality({ i \in 1..Len(messages) :
                           /\ messages[i].role = "assistant"
                           /\ messages[i].content.reply_to = b }) <= 1
        /\ Cardinality({ i \in 1..Len(sent) : sent[i].body.reply_to = b }) <= 1

\* C4: a message whose reply dispatch failed, and has not succeeded since, is
\* not covered by the Reply Consumer's committed offset, so that a later poll
\* returns it again.
C4_DispatchFailureKeepsOffset ==
    \A p \in Partitions : \A i \in Positions(p) :
        (log[p][i].body \in dispatchFailed /\ log[p][i].body \notin Replied)
            => ~Committed(AI, p, i)

\* C5: a message the Reply Consumer received and whose offset is committed is
\* in the ledger, and a message in the ledger has had its reply dispatched.
C5_LedgerOrdering ==
    /\ \A p \in Partitions : \A i \in Positions(p) :
          (Committed(AI, p, i) /\ log[p][i].body \in delivered[AI])
              => log[p][i].body \in ProcessedLedger
    /\ ProcessedLedger \subseteq Replied

(***************************************************************************)
(* Per-conversation ordering.                                              *)
(***************************************************************************)
\* the add_message call of body a returned before the call of body b began
ReturnedBefore(a, b) == a \in addPre[b]

\* C6: for two messages of one conversation, if add_message of the first
\* returned before add_message of the second began, the second is never
\* appended to their partition ahead of the first.
C6_PerConversationOrder ==
    \A p \in Partitions : \A i, j \in 1..Len(log[p]) :
        (i < j /\ log[p][i].conversation_id = log[p][j].conversation_id)
            => ~ReturnedBefore(log[p][j].body, log[p][i].body)

(***************************************************************************)
(* Partition router.                                                       *)
(***************************************************************************)
\* C7: any two send_messages calls for one conversation_id, from publish_sms
\* or publish_sms_batch, before or after a restart, name the same partition.
C7_PartitionStability ==
    \A a, b \in routed :
        a.conversation_id = b.conversation_id => a.partition = b.partition

C7_Witness ==
    \E a, b \in routed :
        /\ a.conversation_id = b.conversation_id
        /\ a.via = "publish_sms"
        /\ b.via = "publish_sms_batch"
        /\ a.epoch # b.epoch

\* C8: every send_messages call names partition (hash % partition_count) + 1
\* of its conversation_id, which lies in 1..partition_count, for the
\* partition_count the topic is created with.
C8_PartitionRange ==
    \A r \in routed :
        /\ r.partition = Mod64(HashTable[r.conversation_id], TopicPartitions) + 1
        /\ r.partition \in 1..TopicPartitions

C8_Witness ==
    /\ \E r \in routed : r.partition = 1
    /\ \E r \in routed : r.partition = TopicPartitions

(***************************************************************************)
(* Flush triggers of the batcher.                                          *)
(***************************************************************************)
NoTimeoutFlush == \A k \in 1..Len(flushLog) : flushLog[k].kind = "size"

\* C9: as long as the flush task has taken nothing, every BatchSize-th
\* add_message call, and no other, swaps out one batch: the BatchSize messages
\* pushed since the previous swap, in push order, leaving the buffer empty.
C9_SizeTriggeredFlush ==
    NoTimeoutFlush =>
        /\ Len(flushLog) = Len(accepted) \div BatchSize
        /\ \A k \in 1..Len(flushLog) :
              /\ Len(flushLog[k].batch) = BatchSize
              /\ \A i \in 1..BatchSize :
                    flushLog[k].batch[i] = accepted[(k - 1) * BatchSize + i].msg
              /\ flushLog[k].by = accepted[k * BatchSize].by
        /\ Len(buffer) = Len(accepted) % BatchSize
        /\ \A i \in 1..Len(buffer) :
              buffer[i] = accepted[Len(flushLog) * BatchSize + i].msg

C9_Witness ==
    /\ NoTimeoutFlush
    /\ Len(accepted) = BatchSize
    /\ Len(flushLog) = 1
    /\ buffer = <<>>

\* C10: a tick of the flush task that finds the buffer non-empty swaps out one
\* batch holding all buffered messages and leaves the buffer empty; a tick
\* that finds it empty starts no publish and changes nothing but its own
\* position and the lock.
C10_TimerFlush ==
    [][ (pc[Timer] = "crit" /\ pc'[Timer] # "crit") =>
            IF buffer = <<>>
            THEN /\ pc'[Timer] = "sleep"
                 /\ UNCHANGED <<buffer, cur, batch, groups, nextBody, brokerVars,
                                historyVars, processVars, consumerVars, storeVars, outcomeVars,
                                codecVars>>
            ELSE /\ pc'[Timer] = "publish"
                 /\ batch'[Timer] = buffer
                 /\ buffer' = <<>>
                 /\ flushLog' = Append(flushLog, [kind |-> "timeout", by |-> Timer,
                                                  batch |-> buffer])
                 /\ UNCHANGED <<brokerVars, accepted>> ]_vars

C10_Witness ==
    /\ Len(accepted) = 1
    /\ flushLog = << [kind |-> "timeout", by |-> Timer,
                      batch |-> <<accepted[1].msg>>] >>
    /\ buffer = <<>>

(***************************************************************************)
(* add_message and network I/O.                                            *)
(***************************************************************************)
\* C11: no add_message call waits for a broker publish: no webhook handler is
\* ever inside publish_sms_batch with its add_message call not yet returned.
C11_AddNeverAwaitsPublish ==
    \A h \in Handlers : pc[h] # "publish"

\* C12: a task inside publish_sms_batch does not hold the buffer mutex; the
\* mutex is held only by a task inside its locked block, so a handler waiting
\* for the mutex while a flush is in flight can take it as soon as it is free.
C12_LockNotHeldAcrossPublish ==
    /\ \A t \in Tasks : pc[t] = "publish" => lock # t
    /\ lock # NoTask => pc[lock] = "crit"
    /\ \A t \in Tasks, h \in Handlers :
          (pc[t] = "publish" /\ pc[h] = "lock" /\ lock = NoTask)
              => ENABLED AcquireLock(h)

\* a handler is inside its locked block, appending, while a flush is in flight
C12_Witness ==
    \E t \in Tasks, h \in Handlers :
        /\ t # h
        /\ pc[t] = "publish"
        /\ pc[h] = "crit"
        /\ lock = h

(***************************************************************************)
(* The batch codec.                                                        *)
(***************************************************************************)
RECURSIVE TotalLen(_)
TotalLen(list) == IF list = <<>> THEN Small(0) ELSE BigAdd(BLen(list[1]), TotalLen(Tail(list)))

\* the payload of the list is shorter than 2^32 bytes
FitsU32(list) == ~OverflowsU32(TotalLen(list))

\* count is the list length and the index has 4 bytes per message
CountAndIndexSize ==
    mb.built => (mb.count = Len(input) /\ Len(mb.indexes) = 4 * mb.count)

\* the last get call, if its index was in range, returned that message
GetReturnsMessage ==
    (mb.built /\ got.called /\ got.index < mb.count)
        => got.result = Some(input[got.index + 1])

YieldsListInOrder(k) ==
    /\ Len(yielded[k]) <= mb.count + 1
    /\ \A j \in 1..Len(yielded[k]) :
          yielded[k][j] = IF j <= mb.count THEN Some(input[j]) ELSE None
    /\ \A j \in 1..Len(yielded[k]) : yielded[k][j] = Get(mb, j - 1)

C15_GetOutOfRange ==
    (mb.built /\ got.called /\ got.index >= mb.count) => got.result = None

\* get(0) on the empty batch has returned None
C15_Witness ==
    /\ mb.built
    /\ mb.count = 0
    /\ got.called
    /\ got.index = 0
    /\ got.result = None

\* the offset stored for message i (counted from 0)
StoredOffset(i) == ReadU32Le(Advance(mb.indexes, 4 * i))

\* offsets start at 0, never decrease, stay within the payload, and cut the
\* payload into the messages
OffsetsCutPayload ==
    /\ mb.count > 0 => StoredOffset(0) = Small(0)
    /\ \A i \in 0..(mb.count - 2) : BigLe(StoredOffset(i), StoredOffset(i + 1))
    /\ \A i \in 0..(mb.count - 1) : BigLe(StoredOffset(i), BLen(mb.messages))
    /\ \A i \in 0..(mb.count - 1) :
          Slice(mb.messages, StoredOffset(i),
                IF i + 1 < mb.count THEN StoredOffset(i + 1) ELSE BLen(mb.messages))
              = Some(input[i + 1])

ExactOffset(i) == TotalLen(SubSeq(input, 1, i))

\* get or an iterator has panicked on a slice out of order or out of range
SlicePanicked ==
    \/ got.called /\ got.result = Panic
    \/ \E k \in Iterators : \E j \in 1..Len(yielded[k]) : yielded[k][j] = Panic

\* C39: for every input list the offset from_messages stores for message i
\* is the exact sum of the lengths of messages 0..i-1, never that sum reduced
\* modulo 2^32, and neither get nor an iterator slices with start > end or
\* beyond the payload.
C39_OffsetsDoNotWrap ==
    mb.built =>
        /\ \A i \in 0..(mb.count - 1) : StoredOffset(i) = ExactOffset(i)
        /\ ~SlicePanicked

(***************************************************************************)
(* The Store Consumer.                                                     *)
(***************************************************************************)
\* the messages appended to the topic so far
Appended == UNION { { log[p][i] : i \in 1..Len(log[p]) } : p \in Partitions }

\* the user rows holding body b
UserRowsOf(b) ==
    { i \in 1..Len(messages) : messages[i].role = "user" /\ messages[i].content = b }

\* C17: once the Store Consumer has processed a message successfully, the
\* conversation named by its conversation_id exists and exactly one user row
\* with its body has been appended, to that conversation; a conversation row,
\* once created, stays, and a step creates at most one, for an id not there.
C17_StorePersistence ==
    /\ [](\A m \in Appended :
            m.body \in done[Turso]
                => /\ m.conversation_id \in conversations
                   /\ Cardinality(UserRowsOf(m.body)) = 1
                   /\ \A i \in UserRowsOf(m.body) :
                         messages[i].conversation_id = m.conversation_id)
    /\ [][conversations' # conversations
            => \E cid \in ConversationIds :
                  /\ cid \notin conversations
                  /\ cid = polled[Turso][1].conversation_id
                  /\ conversations' = conversations \cup {cid}]_vars

\* two messages of one conversation stored: one conversation row, two user rows
C17_Witness ==
    \E m1, m2 \in Appended :
        /\ m1.body # m2.body
        /\ m1.conversation_id = m2.conversation_id
        /\ {m1.body, m2.body} \subseteq done[Turso]
        /\ conversations = {m1.conversation_id}
        /\ Len(messages) = 2

\* what the for loop of poll_and_process has in hand: the message it is at
AtUndecodable(c) == cpc[c] = FirstStep(c) /\ ~Deserializes(polled[c][1])

\* C18: a message whose payload cannot be decoded is skipped on its own: the step
\* a consumer takes at such a message leaves the rest of the polled batch in hand,
\* to be processed next; it never drops the messages polled after it.
C18_DecodeFailureSkipsOne ==
    [][\A c \in Consumers :
         (AtUndecodable(c) /\ <<polled[c], cpc[c]>>' # <<polled[c], cpc[c]>>)
            => /\ polled'[c] = Tail(polled[c])
               /\ cpc'[c] = IF Len(polled[c]) = 1 THEN "poll" ELSE FirstStep(c)]_vars

\* the loop of start is at poll_and_process again
PollsAgain(c) == []<>(cpc[c] = "poll")

\* C19: neither consumer loop stops because of a failure: whatever failed, the
\* consumer polls the broker again, and the failure of one message leaves the
\* messages polled after it in hand: a step only ever takes the first message off
\* the polled batch.
C19_LoopsSurviveFailures ==
    /\ \A c \in Consumers : PollsAgain(c)
    /\ [][\A c \in Consumers :
            (polled[c] # <<>> /\ polled'[c] # polled[c]) => polled'[c] = Tail(polled[c])]_vars

\* the part of C19 about the loop of start alone
StartNeverReturns == \A c \in Consumers : PollsAgain(c)

\* the apology text of unwrap_or_else, as the reply to inbound message sms
Fallback(sms) == Reply("fallback", sms)

\* the Reply Consumer holds the apology text as ai_response
FallbackInHand == aiResponse # <<>> /\ aiResponse[1].text = "fallback"

\* C20: fallback reply. A failed generation never ends process_message: the
\* apology text becomes the reply and processing goes on to the store call; the
\* row that call inserts is the assistant row with the apology text in the
\* conversation of the inbound message; the only dispatch made is of that text to
\* the sender of the inbound message, and once it is dispatched the message is
\* processed successfully, its offset committed.
C20_FallbackReply ==
    /\ [](\A i \in 1..Len(sent) :
            sent[i].body.text = "fallback"
               => \E m \in Appended :
                     /\ sent[i] = [to |-> m.from, body |-> Fallback(m)]
                     /\ m.body \in done[AI]
                     /\ \E p \in Partitions : \E j \in Positions(p) :
                           log[p][j] = m /\ Committed(AI, p, j))
    /\ [][/\ (cpc[AI] = "generate" /\ cpc'[AI] # "generate")
              => /\ cpc'[AI] = "persist"
                 /\ polled'[AI] = polled[AI]
                 /\ \E kind \in ReplyKinds : aiResponse' = <<Reply(kind, polled[AI][1])>>
          /\ (cpc[AI] = "persist" /\ FallbackInHand /\ cpc'[AI] # "persist")
              => /\ cpc'[AI] = "send"
                 /\ polled'[AI] = polled[AI]
                 /\ aiResponse' = aiResponse
                 /\ aiResponse = <<Fallback(polled[AI][1])>>
                 /\ messages' \in
                      { messages,
                        Append(messages, Row(polled[AI][1].conversation_id, "assistant",
                                             Fallback(polled[AI][1]))) }
          /\ (cpc[AI] = "send" /\ FallbackInHand /\ sent' # sent)
              => /\ sent' = Append(sent, [to |-> polled[AI][1].from,
                                          body |-> Fallback(polled[AI][1])])
                 /\ done'[AI] = done[AI] \cup {polled[AI][1].body}
                 /\ dispatchFailed' = dispatchFailed]_vars

\* a generation failed, and the apology was stored as the assistant row, sent to
\* the sender and the message processed successfully
C20_Witness ==
    \E m \in Appended :
        /\ \E i \in 1..Len(messages) :
              messages[i] = Row(m.conversation_id, "assistant", Fallback(m))
        /\ \E i \in 1..Len(sent) : sent[i] = [to |-> m.from, body |-> Fallback(m)]
        /\ m.body \in done[AI]
        /\ m.body \notin dispatchFailed

\* C21: stream provisioning is create-if-absent: initializing the broker client
\* while the stream exists leaves the stream and every message appended to it
\* as they were.
C21_ProvisioningKeepsMessages ==
    [][epoch' # epoch => log' = log]_vars

\* the two strings that name a role
ExactRoleStrings == { AsStr(r) : r \in Roles }

\* C22: role is a closed two-value set: from_str(as_str(r)) = r for both roles,
\* and a read of rows one of which holds a role string other than exactly "user"
\* or "assistant" returns an error: no other string is taken for a role.
C22_RoleClosedSet ==
    /\ roleTrip.called => roleTrip.back = SomeRole(roleTrip.role)
    /\ roleRead.called =>
          ((\E i \in 1..Len(roleRead.rows) : roleRead.rows[i] \notin ExactRoleStrings)
              => roleRead.result.kind = "err")

\* the settings the service cannot run without: database URL and token, reply-API
\* key, outbound-messaging project id, token, space URL and from-number
RequiredSettings ==
    { "TURSO_DATABASE_URL", "TURSO_AUTH_TOKEN", "GROQ_API_KEY", "SIGNALWIRE_PROJECT_ID",
      "SIGNALWIRE_AUTH_TOKEN", "SIGNALWIRE_SPACE_URL", "SIGNALWIRE_FROM_NUMBER" }

AllRequiredPresent == \A n \in RequiredSettings : env[n] # Absent

\* C23: configuration fail-fast. Once load has returned, it has returned an error
\* exactly when some required setting is absent, and an error carries no
\* configuration; a configuration that was built has a value for every required
\* setting, the one of the environment; main is past the load only with such a
\* configuration, and exits without connecting when the load failed.
C23_ConfigFailFast ==
    /\ config.kind = "err" => (~AllRequiredPresent /\ DOMAIN config = {"kind", "context"})
    /\ config.kind = "ok" =>
          /\ AllRequiredPresent
          /\ \A n \in RequiredSettings : config.value[n] = env[n]
    /\ mainPc # "load" => config.kind \in {"ok", "err"}
    /\ mainPc \in {"store", "connect", "consume"} => config.kind = "ok"
    /\ config.kind = "err" => mainPc = "exited"

\* the reply-API key alone is absent: the load has failed naming it and main has
\* exited
C23_Witness ==
    /\ config.kind = "err"
    /\ config.context = "GROQ_API_KEY"
    /\ \A n \in RequiredSettings \ {"GROQ_API_KEY"} : env[n] # Absent
    /\ mainPc = "exited"

\* the partition a message of the batch is routed to
RouteOf(m) == GetPartitionForConversation(m.conversation_id)

\* the distinct routed partitions among the messages of the batch
RoutedPartitions == { RouteOf(pubBatch[k]) : k \in 1..Len(pubBatch) }

\* the places of the send_messages calls where message m was sent
PlacesOf(m) ==
    { <<i, j>> \in (1..Len(pubAppends)) \X (1..Len(pubBatch)) :
        j <= Len(pubAppends[i].msgs) /\ pubAppends[i].msgs[j] = m }

\* C24: publish_sms_batch issues one append per distinct routed partition, never
\* one per message: no two appends of a call go to the same partition, each
\* append carries only messages routed to its partition, in their order of the
\* batch, and when the call has returned Ok there is one append for each routed
\* partition and every message of the batch is in exactly one of them, the one
\* of its partition; an empty batch issues no append and returns Ok.
C24_OneAppendPerPartition ==
    /\ \A i, j \in 1..Len(pubAppends) :
          i # j => pubAppends[i].partition # pubAppends[j].partition
    /\ \A i \in 1..Len(pubAppends) :
          LET a == pubAppends[i]
          IN  /\ a.msgs # <<>>
              /\ \A j \in 1..Len(a.msgs) :
                    /\ a.msgs[j] \in { pubBatch[k] : k \in 1..Len(pubBatch) }
                    /\ RouteOf(a.msgs[j]) = a.partition
              /\ \A j, k \in 1..Len(a.msgs) : j < k => a.msgs[j].body < a.msgs[k].body
    /\ (pubPc = "returned" /\ pubRet = "ok") =>
          /\ Len(pubAppends) = Cardinality(RoutedPartitions)
          /\ \A k \in 1..Len(pubBatch) :
                /\ Cardinality(PlacesOf(pubBatch[k])) = 1
                /\ \A pl \in PlacesOf(pubBatch[k]) :
                      pubAppends[pl[1]].partition = RouteOf(pubBatch[k])
    /\ (pubPc = "returned" /\ pubBatch = <<>>) => (pubAppends = <<>> /\ pubRet = "ok")

\* a batch of three messages over two partitions was published with two appends,
\* one of them carrying two messages
C24_Witness ==
    /\ pubPc = "returned"
    /\ pubRet = "ok"
    /\ Len(pubBatch) = 3
    /\ Len(pubAppends) = 2
    /\ \E i \in 1..Len(pubAppends) : Len(pubAppends[i].msgs) = 2

\* C25: publisher fail-fast. A failed append is the last append of the call and
\* the call has returned an error; a call that returned Ok has appended the group
\* of every routed partition.
C25_PublisherFailFast ==
    /\ \A i \in 1..Len(pubAppends) :
          ~pubAppends[i].ok =>
             /\ i = Len(pubAppends)
             /\ pubPc = "returned"
             /\ pubRet = "err"
    /\ pubRet = "ok" =>
          \A p \in RoutedPartitions :
             \E i \in 1..Len(pubAppends) : pubAppends[i].partition = p /\ pubAppends[i].ok
    /\ pubPc = "returned" <=> pubRet # "none"

\* the second of three groups failed: the call returned the error and the third
\* group was never sent
C25_Witness ==
    /\ pubRet = "err"
    /\ Len(pubAppends) = 2
    /\ pubAppends[1].ok
    /\ Cardinality(RoutedPartitions) = 3

\* the inbound message a row of table messages belongs to: the one it stores, or
\* the one it stores the reply to
MessageOfRow(r) == IF r.role = "user" THEN r.content ELSE r.content.reply_to

\* the StoredMessages of the conversation of sms that precede sms, in stored order
PriorRows(sms) ==
    LET Prior(r) == r.conversation_id = sms.conversation_id /\ MessageOfRow(r) < sms.body
    IN  SelectSeq(messages, Prior)

\* C26: history window. The history the Reply Consumer has built for a message is
\* the most recent min(10, k) of the k StoredMessages of the conversation that
\* precede the message, oldest first.
C26_HistoryWindow ==
    cpc[AI] = "generate" =>
        LET prior == PriorRows(polled[AI][1])
            k == Len(prior)
            n == IF k < 10 THEN k ELSE 10
        IN  aiHistory = [i \in 1..n |-> [role |-> prior[k - n + i].role,
                                         content |-> prior[k - n + i].content]]

\* a request that did not get an answer: another status than 2xx, or no response
TransientFailures == {"status", "transport"}

\* C27: bounded retry. A call makes at most 2 requests, the second only after the
\* first ended with a non-2xx status or a transport error; a request answered
\* with a reply is the last one and the call has returned that reply; the call
\* returns a reply only for a request that was answered with one, and when both
\* requests failed it has returned an error; the unreachable!() after the loop is
\* never reached, and every call returns.
C27_BoundedRetry ==
    /\ [](/\ Len(genOutcomes) <= 2
          /\ Len(genOutcomes) = 2 => genOutcomes[1] \in TransientFailures
          /\ \A i \in 1..Len(genOutcomes) :
                genOutcomes[i] = "reply" =>
                   /\ i = Len(genOutcomes)
                   /\ genPc = "returned"
                   /\ genRet = [kind |-> "ok", reply_to |-> genRequest]
          /\ genRet.kind = "ok" => genOutcomes[Len(genOutcomes)] = "reply"
          /\ (Len(genOutcomes) = 2 /\ genOutcomes[2] # "reply") =>
                (genPc = "returned" /\ genRet.kind = "err")
          /\ genPc = "returned" <=> genRet # NoReturn
          /\ genPc # "unreachable")
    /\ <>(genPc = "returned")

\* both requests failed and the call returned the error
C27_Witness ==
    /\ genPc = "returned"
    /\ genRet.kind = "err"
    /\ Len(genOutcomes) = 2
    /\ \A i \in 1..2 : genOutcomes[i] \in TransientFailures

\* C29: the request consists of the 20 most recent turns of the history, or of
\* all of them when there are at most 20, oldest first, followed by the new user
\* message: of a longer history the oldest turns are dropped.
C29_RequestKeepsMostRecent ==
    genPc \in {"send", "returned"} =>
        LET h == Len(genHistory)
            n == IF h < 20 THEN h ELSE 20
        IN  genRequest = [i \in 1..(n + 1) |->
                            IF i <= n THEN genHistory[h - n + i] ELSE UserMessage]

\* the assistant rows that store reply text t in conversation cid
AssistantRowsOf(cid, t) ==
    { j \in 1..Len(messages) : messages[j] = Row(cid, "assistant", t) }

\* C28: a reply is dispatched only after it has been persisted: each reply handed
\* to the outbound send has its assistant StoredMessage, one and no more, with
\* the same text in the conversation of the inbound message.
C28_DispatchAfterPersist ==
    \A i \in 1..Len(sent) :
        \E m \in Appended :
            /\ m.body = sent[i].body.reply_to
            /\ Cardinality(AssistantRowsOf(m.conversation_id, sent[i].body)) = 1

\* C30: every stored message bumps its conversation's timestamp: for each
\* conversation and each StoredMessage of it, updated_at is not earlier than the
\* created_at of the message; no message row exists without its bump.
C30_StoredMessageBumpsConversation ==
    \A cid \in conversations : \A j \in 1..Len(messages) :
        messages[j].conversation_id = cid => updatedAt[cid] >= j

(***************************************************************************)
(* Conservation and bound of the batcher's buffer.                         *)
(***************************************************************************)
\* the first k swapped-out batches laid end to end
RECURSIVE SwappedOut(_)
SwappedOut(k) == IF k = 0 THEN <<>> ELSE SwappedOut(k - 1) \o flushLog[k].batch

\* the messages pushed onto the buffer, in push order
Pushed == [i \in 1..Len(accepted) |-> accepted[i].msg]

\* C33: under any interleaving of add_message calls and timer ticks, the
\* swapped-out batches laid end to end, followed by what the buffer holds,
\* are the pushed messages in push order: a message pushed is in the buffer
\* or in exactly one batch, never in two and never dropped by a swap, and
\* each batch keeps the order of the pushes.
C33_BatcherConservation ==
    SwappedOut(Len(flushLog)) \o buffer = Pushed

\* two handlers and the flush task have all taken part: a timer batch, then
\* a size batch whose two messages were pushed by different handlers
C33_Witness ==
    /\ Len(accepted) = 3
    /\ Len(flushLog) = 2
    /\ flushLog[1].kind = "timeout"
    /\ flushLog[2].kind = "size"
    /\ accepted[2].by # accepted[3].by
    /\ flushLog[2].batch = <<accepted[2].msg, accepted[3].msg>>
    /\ buffer = <<>>

\* C34: whenever the buffer lock is free the buffer holds fewer than
\* batch_size messages; every size-triggered batch has exactly batch_size
\* messages and every timer-triggered batch between 1 and batch_size - 1.
C34_BufferBound ==
    /\ lock = NoTask => Len(buffer) < BatchSize
    /\ \A k \in 1..Len(flushLog) :
          IF flushLog[k].kind = "size"
          THEN Len(flushLog[k].batch) = BatchSize
          ELSE Len(flushLog[k].batch) \in 1..(BatchSize - 1)

\* a full size batch was swapped out and later a timer batch of one message;
\* the lock is free and the buffer empty
C34_Witness ==
    /\ Len(flushLog) = 2
    /\ flushLog[1].kind = "size"
    /\ Len(flushLog[1].batch) = BatchSize
    /\ flushLog[2].kind = "timeout"
    /\ Len(flushLog[2].batch) = 1
    /\ lock = NoTask
    /\ buffer = <<>>

(***************************************************************************)
(* Liveness of the batcher.                                                *)
(***************************************************************************)
\* message n has been pushed onto the buffer
PushedBody(n) == \E i \in 1..Len(accepted) : accepted[i].msg.body = n

\* message n has left the buffer in a batch handed to publish_sms_batch
SwappedBody(n) ==
    \E k \in 1..Len(flushLog) : \E j \in 1..Len(flushLog[k].batch) :
        flushLog[k].batch[j].body = n

\* C35: with the flush task scheduled fairly, every message add_message has
\* pushed is eventually taken out of the buffer in a batch handed to
\* publish_sms_batch, with no further add_message call and after a failed
\* flush as well.
C35_BatcherLiveness ==
    \A n \in Bodies : PushedBody(n) ~> SwappedBody(n)

\* the first timer flush failed (its message reached no partition) and the
\* flush task has since swapped out a second batch
C35_Witness ==
    /\ Len(flushLog) = 2
    /\ flushLog[1].kind = "timeout"
    /\ flushLog[2].kind = "timeout"
    /\ \A m \in Appended : m.body # flushLog[1].batch[1].body
    /\ SwappedBody(flushLog[2].batch[1].body)

(***************************************************************************)
(* Messages acknowledged by add_message and publish failures.              *)
(***************************************************************************)
\* message n is in a batch some task is still publishing
BeingPublished(n) ==
    \E t \in Tasks : \E j \in 1..Len(batch[t]) : batch[t][j].body = n

\* C36: no message whose add_message call returned Ok is silently discarded:
\* once the publish of the batch that took it has ended, the message is in
\* the broker's log (a failure would have been reported to its caller, whose
\* call then had not returned Ok).
C36_NoSilentDiscard ==
    \A n \in Bodies :
        (addRet[n] = "ok" /\ SwappedBody(n) /\ ~BeingPublished(n))
            => \E m \in Appended : m.body = n

(***************************************************************************)
(* The two consumers on the shared store.                                  *)
(***************************************************************************)
\* C37: no orphan messages: under every interleaving of the Store Consumer
\* and the Reply Consumer, each stored message, user or assistant, names a
\* conversation that exists; no assistant reply is stored for a conversation
\* not yet created.
C37_NoOrphanMessages ==
    \A j \in 1..Len(messages) : messages[j].conversation_id \in conversations

\* the messages of the request generate_response(&sms.body, &history) builds:
\* the history, at most 20 turns of it, then the user turn with the body
RequestFor(sms, history) ==
    Append(Take(history, RequestCap), [role |-> "user", content |-> sms.body])

\* the inbound message a turn belongs to: the one it carries or replies to
MessageOfTurn(t) == IF t.role = "user" THEN t.content ELSE t.content.reply_to

\* C38: under every interleaving of the two consumers, the request the Reply
\* Consumer builds for a message holds the body of the message once, as its
\* final user turn; its history holds only turns of earlier messages, not the
\* message itself nor a later one, and ends with the most recent prior turn
\* stored, also when the Store Consumer has not stored the message yet.
C38_RequestHoldsMessageOnce ==
    cpc[AI] = "generate" =>
        LET sms == polled[AI][1]
            req == RequestFor(sms, aiHistory)
            prior == PriorRows(sms)
        IN  /\ req[Len(req)] = [role |-> "user", content |-> sms.body]
            /\ Cardinality({ i \in 1..Len(req) :
                                req[i] = [role |-> "user", content |-> sms.body] }) = 1
            /\ \A i \in 1..Len(aiHistory) : MessageOfTurn(aiHistory[i]) < sms.body
            /\ prior # <<>> =>
                  /\ aiHistory # <<>>
                  /\ aiHistory[Len(aiHistory)] =
                        [role |-> prior[Len(prior)].role,
                         content |-> prior[Len(prior)].content]

(***************************************************************************)
(* LazyMessage: memoization, and the conversation_id shortcut.             *)
(***************************************************************************)
\* C31: the first successful deserialize() parses the raw bytes and caches
\* the view; every later deserialize() on the same LazyMessage or on a clone
\* of it, from any task, returns a view equal to the first without parsing:
\* after a from_bytes call that succeeded there is no further from_bytes call.
C31_LazyMemoization ==
    /\ \A i \in 1..(Len(lazyParsed) - 1) : lazyParsed[i].kind # "ok"
    /\ \A i, j \in 1..Len(lazyReturned) :
          (i < j /\ lazyReturned[i].result.kind = "ok")
              => lazyReturned[j].result = lazyReturned[i].result
    /\ \A c \in Cells :
          lazyCached[c].kind = "some" => Ok(lazyCached[c].view) = FromBytes(lazyRaw)

\* one task has parsed and returned the view through the first handle; the
\* other task, through the clone, has returned an equal view; the bytes were
\* parsed once
C31_Witness ==
    /\ Len(lazyHandles) = 2
    /\ Len(lazyReturned) = 2
    /\ lazyReturned[1].handle = 1
    /\ lazyReturned[2].handle = 2
    /\ lazyReturned[1].task # lazyReturned[2].task
    /\ lazyReturned[1].result.kind = "ok"
    /\ lazyReturned[2].result = lazyReturned[1].result
    /\ Len(lazyParsed) = 1

\* the payload is JSON but no object, or an object whose conversation_id is
\* absent or no string
NoStringConversationId(payload) ==
    /\ payload.json = "valid"
    /\ \/ payload.value.t # "object"
       \/ "conversation_id" \notin DOMAIN payload.value.fields
       \/ payload.value.fields["conversation_id"].t # "string"

\* C32: conversation_id() returns a decode error, and does not panic, for
\* bytes that are no JSON, JSON that is no object, an object without
\* conversation_id and one whose conversation_id is no string; for a payload
\* that deserializes as a message it returns the conversation_id of the
\* deserialized message.
C32_ExtractConversationId ==
    lazyCid.called =>
        /\ lazyCid.result.kind \in {"ok", "err"}
        /\ (lazyRaw = Garbled \/ NoStringConversationId(lazyRaw))
              => lazyCid.result.kind = "err"
        /\ \A i \in 1..Len(lazyReturned) :
              lazyReturned[i].result.kind = "ok"
                  => lazyCid.result = Ok(ViewConversationId(lazyReturned[i].result.value))

====
